---- MODULE Spec2Model ----
(***************************************************************************)
(* Process and artifact lifecycle of the youtube-downloader core:          *)
(*   - Downloader   (electron/services/ytdlp.service.ts)                   *)
(*   - Transcriber  (electron/services/database.service.ts)                *)
(*   - BinaryManager (electron/services/settings.service.ts)               *)
(*   - transcribeCommand (cli/commands/transcribe.ts)                      *)
(*   - main, parseCliArgs (cli/output/progress.ts), handleError            *)
(* Every JavaScript callback runs to completion on the single event loop,  *)
(* so one callback is one action.  Child processes, the libuv thread pool  *)
(* and the HTTP server are the environment and move on their own.          *)
(***************************************************************************)
EXTENDS Integers, Sequences, FiniteSets

\* ------------------------------------------------------------------ bounds
MaxJobs == 2          \* children one Downloader instance may spawn in a run
MaxCalls == 4         \* API calls (download/pause/resume/cancel) in a run
MaxData == 1          \* stdout/stderr data events delivered in a run
MaxTrJobs == 2        \* transcribe() calls on one Transcriber in a run
MaxTrCalls == 2       \* Transcriber.cancel() calls in a run
MaxCallers == 2       \* concurrent downloadBinary/downloadWhisperModel calls for one artifact
ArtifactSize == 2     \* chunks the artifact's body consists of
MaxAllCalls == 3      \* downloadAllBinaries() calls in a run
MaxCliData == 2       \* subprocess output chunks delivered during one CLI run
MaxEnsureCalls == 2   \* ensureWhisperReady() calls in a run, one after the other
MaxReports == 2       \* reporter calls in one run
MaxLines == 2         \* lines yt-dlp writes to stdout in a run
MaxChunk == 10        \* characters in one stdout 'data' chunk
MaxParams == 2        \* parameters in the query of a URL
MaxDepth == 2         \* segments of the path handed to isPathWithinAllowed
MaxBaseDepth == 1     \* segments of an allowed base directory
MaxBases == 2         \* allowed base directories
MaxIds == 2           \* download ids the renderer uses
MaxStarts == 2        \* ytdlp:download requests in a run
MaxRequests == 2      \* ytdlp:pause / resume / cancel requests in a run
MaxItems == 4         \* items added to the download queue in a run
MaxPlaylists == 2     \* playlists the items come from
MaxStamps == 2        \* caption timestamps in one output chunk

\* Program constants.
PercentCap == 99      \* the cap of timestamp-derived progress
RedirectLimit == 5    \* the redirectCount followRedirect still requests with

\* ------------------------------------------------------- program constants
KillGraceSeconds == 5 \* setTimeout(..., 5000) in Downloader.cancel

VARIABLES
  \* ---- Downloader
  dlProcess,     \* Downloader.process: 0 is null, else the attached child
  dlIsPaused,    \* Downloader.isPaused
  dlChild,       \* the children spawned by download(), by job number
  dlSpawned,     \* how many children download() has spawned
  dlLog,         \* per job: signals sent to it and events emitted for it, in order
  dlTimer,       \* per child: the SIGKILL escalation timer set by cancel()
  dlPromise,     \* per job: the promise returned by download(), and what it settled with
  dlCalls,       \* API calls made so far
  dlLastCall,    \* the latest API call and whether it passed its guard
  dlData,        \* stdout/stderr data events delivered so far
  dlListener,    \* whether the owner registered an 'error' listener
  dlCrashed      \* an exception escaped a callback: the Node process is gone

dlVars == <<dlProcess, dlIsPaused, dlChild, dlSpawned, dlLog, dlTimer,
            dlPromise, dlCalls, dlLastCall, dlData, dlListener, dlCrashed>>

\* ---- Transcriber
VARIABLES
  trProcess,     \* Transcriber.process: 0 is null, else the job whose engine is attached
  tempWavFile,   \* Transcriber.tempWavFile: 0 is null, else the job whose WAV it names
  trJob,         \* per transcribe() call: where it stands, its engine child, its promise
  trStarted,     \* how many transcribe() calls were made
  trWav,         \* per job: the file at the intermediate WAV path ("user": one that lay there before)
  trLog,         \* per job: signals sent and events emitted, in order
  whisperExists, \* fs.existsSync(whisperPath)
  modelExists,   \* fs.existsSync(modelPath)
  trCalls,       \* cancel() calls made so far
  trData,        \* engine output chunks delivered so far
  trListener,    \* whether the owner registered an 'error' listener
  trCrashed,     \* an exception escaped a callback: the Node process is gone
  trCancelled    \* the jobs during or after which cancel() was called

trVars == <<trProcess, tempWavFile, trJob, trStarted, trWav, trLog, whisperExists,
            modelExists, trCalls, trData, trListener, trCrashed, trCancelled>>

\* ---- BinaryManager: acquisition of one artifact
VARIABLES
  acKind,        \* "plain" or "zip" binary (downloadBinary), or "model" (downloadWhisperModel)
  acUrl,         \* the catalog entry for the name: "https", "empty" ('') or "undefined"
  acDeclared,    \* Content-Length the server declares, 0 when it declares none
  fsDest,        \* the file downloadFile writes: '<target>.tmp', or '<target>.tmp.zip'
  fsFinal,       \* the file at the final target path
  acCall,        \* per caller: where its downloadBinary call stands
  acStarted,     \* how many calls were made
  acRequests,    \* network requests issued so far
  acUnlinkQ      \* fs.unlink(destPath) operations handed to the thread pool, not run yet

acVars == <<acKind, acUrl, acDeclared, fsDest, fsFinal, acCall, acStarted, acRequests, acUnlinkQ>>

\* ---- BinaryManager.downloadAllBinaries
VARIABLES
  downloadInProgress, \* BinaryManager.downloadInProgress: 0 is null, else the run it holds
  daRun,         \* per doDownload() invocation: where it stands and how it ended
  daCall,        \* per downloadAllBinaries() call: the run it awaits and its outcome
  daCalls,       \* how many calls were made
  daStatusChecks, \* checkBinaryStatus() invocations so far
  daDownloads,   \* downloadBinary() invocations so far
  ytReady,       \* yt-dlp exists and is executable
  denoReady,     \* deno exists and is executable
  daPlatform     \* process.platform

daVars == <<downloadInProgress, daRun, daCall, daCalls, daStatusChecks, daDownloads,
            ytReady, denoReady, daPlatform>>

\* ---- the CLI: main and transcribeCommand
VARIABLES
  cliPc,         \* the await transcribeCommand stands at
  cliEnd,        \* "running", or how the command ended
  cliErr,        \* what the command threw, "none" so far
  tempDir,       \* the directory made by mkdtempSync: "none", "present", "removed"
  cliOpts,       \* options.output given, options.keepAudio, options.stdout
  cliData,       \* subprocess output chunks delivered so far
  cliEntry,      \* "main": run through the CLI entry point; "direct": transcribeCommand called
  cliArgs,       \* which of format, audio format, model and URL are valid
  cliStatus,     \* what checkBinaryStatus() reported to the command
  cliIo,         \* the kinds of I/O the command has started
  cliExit        \* the code the process exited with, NoExit so far

cliVars == <<cliPc, cliEnd, cliErr, tempDir, cliOpts, cliData,
             cliEntry, cliArgs, cliStatus, cliIo, cliExit>>

\* ---- BinaryManager.ensureWhisperReady
VARIABLES
  ewPlatform,    \* process.platform
  ewBinary,      \* fs.existsSync(whisper binary path)
  ewModelUrl,    \* WHISPER_MODEL_URLS[modelName]: "https", or "undefined" for a name not in it
  ewModelFile,   \* fs.existsSync(model path)
  ewPc,          \* the await ensureWhisperReady stands at
  ewCalls,       \* how many calls were made
  ewRequests,    \* network requests issued so far
  ewOut          \* "none", "ok", or the error the call rejected with

ewVars == <<ewPlatform, ewBinary, ewModelUrl, ewModelFile, ewPc, ewCalls, ewRequests,
            ewOut>>

\* ---- BinaryManager.checkBinaryStatus
VARIABLES
  csFiles,       \* per binary: the file at its path: "missing", "noexec" or "exec"
  csPc,          \* 0 not called; 1..4 the binary being checked; 5 status returned
  csProbing,     \* the version probe of that binary is running
  csInfo,        \* per binary: the BinaryInfo checkBinary returned
  csReady        \* the `ready` field of the returned BinaryStatus

csVars == <<csFiles, csPc, csProbing, csInfo, csReady>>

\* ---- ProgressReporter and the output of transcribeCommand
VARIABLES
  rpOpts,        \* options.quiet, .json, .verbose, .output given, .stdout
  rpTty,         \* process.stderr.isTTY
  rpTranscript,  \* the transcript read back: "bare", or "newline" when it ends with '\n'
  rp,            \* what was written to stderr and stdout, and lastLineLength > 0
  rpCalls,       \* reporter calls made so far
  rpDone         \* the command has passed its output step

rpVars == <<rpOpts, rpTty, rpTranscript, rp, rpCalls, rpDone>>

\* ---- Downloader.download: the stdout 'data' handler
VARIABLES
  pgStream,      \* what yt-dlp writes to stdout in the run, character by character
  pgSent,        \* how many of these characters were delivered in 'data' events
  pgEvents       \* the 'progress' events emitted so far

pgVars == <<pgStream, pgSent, pgEvents>>

\* ---- parseSpeed
VARIABLES
  spIn,          \* the parts the argument is put together from
  spOut          \* what parseSpeed returned, NotCalled before the call

spVars == <<spIn, spOut>>

\* ---- extractVideoId (renderer)
VARIABLES
  evIn,          \* the parts the URL is put together from
  evOut          \* what extractVideoId returned, "not-called" before the call

evVars == <<evIn, evOut>>

\* ---- isPathWithinAllowed and the openFolder / openFile handlers
VARIABLES
  ipPath,        \* the path argument: its segments, and whether it is relative
  ipBases,       \* the allowed base directories
  ipAnswer       \* "none" before the request, then "opened" or "blocked"

ipVars == <<ipPath, ipBases, ipAnswer>>

\* ---- registerDownloadIPC: the registry of running downloads
VARIABLES
  activeDownloads, \* the Map: per download id the Downloader registered, 0 if none
  adDl,            \* per ytdlp:download request: its Downloader and its child
  adStarted,       \* ytdlp:download requests handled so far
  adAnswer,        \* the latest pause / resume / cancel request and its answer
  adRequests,      \* pause / resume / cancel requests handled so far
  adData           \* stderr chunks delivered so far

adVars == <<activeDownloads, adDl, adStarted, adAnswer, adRequests, adData>>

\* ---- the playlist queue of the renderer
VARIABLES
  downloads,     \* useDownloadStore.downloads, in queue order: the status of each item
  plRunning      \* per item: whether the main process runs a download under its id

plVars == <<downloads, plRunning>>

\* ---- Transcriber: the progress events of one instance
VARIABLES
  totalDuration, \* this.totalDuration, in seconds
  tpPc,          \* "idle", "running" (engine spawned), "cancelled" or "ended"
  tpProgress,    \* the latest 'progress' event emitted
  tpCause        \* what made the instance emit it

tpVars == <<totalDuration, tpPc, tpProgress, tpCause>>

\* ---- downloadFile: followRedirect
VARIABLES
  rdPc,          \* "idle", "request", "body", "done" or "failed"
  redirectCount, \* the redirectCount of the followRedirect call in flight
  rdProtocol,    \* the protocol of its currentUrl
  resolved,      \* the flag of cleanup
  rdError,       \* the error the promise was rejected with, "none" if none
  rdRequests,    \* protocol.get calls made
  rdHops,        \* responses received that redirect (3xx with a location)
  rdStatus       \* the status code of the latest response, 0 before any

rdVars == <<rdPc, redirectCount, rdProtocol, resolved, rdError, rdRequests, rdHops, rdStatus>>

vars == <<dlVars, trVars, acVars, daVars, cliVars, ewVars, csVars, rpVars, pgVars, spVars, evVars, ipVars, adVars, plVars, tpVars, rdVars>>

\* What a step of one component leaves alone.
DlFrame == UNCHANGED <<trVars, acVars, daVars, cliVars, ewVars, csVars, rpVars, pgVars, spVars, evVars, ipVars, adVars, plVars, tpVars, rdVars>>
TrFrame == UNCHANGED <<dlVars, acVars, daVars, cliVars, ewVars, csVars, rpVars, pgVars, spVars, evVars, ipVars, adVars, plVars, tpVars, rdVars>>
AcFrame == UNCHANGED <<dlVars, trVars, daVars, cliVars, ewVars, csVars, rpVars, pgVars, spVars, evVars, ipVars, adVars, plVars, tpVars, rdVars>>
DaFrame == UNCHANGED <<dlVars, trVars, acVars, cliVars, ewVars, csVars, rpVars, pgVars, spVars, evVars, ipVars, adVars, plVars, tpVars, rdVars>>
CliFrame == UNCHANGED <<dlVars, trVars, acVars, daVars, ewVars, csVars, rpVars, pgVars, spVars, evVars, ipVars, adVars, plVars, tpVars, rdVars>>
EwFrame == UNCHANGED <<dlVars, trVars, acVars, daVars, cliVars, csVars, rpVars, pgVars, spVars, evVars, ipVars, adVars, plVars, tpVars, rdVars>>
CsFrame == UNCHANGED <<dlVars, trVars, acVars, daVars, cliVars, ewVars, rpVars, pgVars, spVars, evVars, ipVars, adVars, plVars, tpVars, rdVars>>
RpFrame == UNCHANGED <<dlVars, trVars, acVars, daVars, cliVars, ewVars, csVars, pgVars, spVars, evVars, ipVars, adVars, plVars, tpVars, rdVars>>
PgFrame == UNCHANGED <<dlVars, trVars, acVars, daVars, cliVars, ewVars, csVars, rpVars, spVars, evVars, ipVars, adVars, plVars, tpVars, rdVars>>
SpFrame == UNCHANGED <<dlVars, trVars, acVars, daVars, cliVars, ewVars, csVars, rpVars, pgVars, evVars, ipVars, adVars, plVars, tpVars, rdVars>>
EvFrame == UNCHANGED <<dlVars, trVars, acVars, daVars, cliVars, ewVars, csVars, rpVars, pgVars, spVars, ipVars, adVars, plVars, tpVars, rdVars>>
IpFrame == UNCHANGED <<dlVars, trVars, acVars, daVars, cliVars, ewVars, csVars, rpVars, pgVars, spVars, evVars, adVars, plVars, tpVars, rdVars>>
AdFrame == UNCHANGED <<dlVars, trVars, acVars, daVars, cliVars, ewVars, csVars, rpVars, pgVars, spVars, evVars, ipVars, plVars, tpVars, rdVars>>
PlFrame == UNCHANGED <<dlVars, trVars, acVars, daVars, cliVars, ewVars, csVars, rpVars, pgVars, spVars, evVars, ipVars, adVars, tpVars, rdVars>>
TpFrame == UNCHANGED <<dlVars, trVars, acVars, daVars, cliVars, ewVars, csVars, rpVars, pgVars, spVars, evVars, ipVars, adVars, plVars, rdVars>>
RdFrame == UNCHANGED <<dlVars, trVars, acVars, daVars, cliVars, ewVars, csVars, rpVars, pgVars, spVars, evVars, ipVars, adVars, plVars, tpVars>>

Jobs == 1..MaxJobs

\* ---------------------------------------------------------------- helpers
CountOf(s, e) == Cardinality({i \in DOMAIN s : s[i] = e})

\* The log of job p gets the entries es appended.
Logged(log, p, es) == [log EXCEPT ![p] = @ \o es]

\* A child that was never spawned.
NoChild ==
  [os |-> "none", pid |-> FALSE, term |-> FALSE, code |-> "none",
   exitSeen |-> FALSE, closeSeen |-> FALSE, errSeen |-> FALSE,
   outputFile |-> FALSE, stderr |-> FALSE, fresh |-> FALSE]

\* The promise of a download() call that was not made yet.  Once settled,
\* `value` tells what it settled with: the recovered path or the empty
\* string, the Error made from the exit code, or the spawn error; `stderr`
\* tells whether that value holds what the child wrote to stderr.
NoPromise == [st |-> "none", value |-> "none", stderr |-> FALSE]

NoTimer == [st |-> "none", left |-> 0]

\* What the operating system does with a signal sent through
\* ChildProcess.kill: nothing once the child is gone; SIGSTOP suspends,
\* SIGCONT continues, SIGTERM stays pending while the child is suspended.
Deliver(c, sig) ==
  IF c.os \notin {"running", "stopped"} THEN c
  ELSE CASE sig = "SIGSTOP" -> [c EXCEPT !.os = "stopped"]
         [] sig = "SIGCONT" -> [c EXCEPT !.os = "running"]
         [] sig = "SIGTERM" -> [c EXCEPT !.term = TRUE]
         [] sig = "SIGKILL" -> [c EXCEPT !.os = "dead", !.code = "signal"]
         [] OTHER -> c

\* EventEmitter.emit('error', ...) throws when no 'error' listener is
\* registered; the exception escapes the callback and ends the process.
EmitErrorThrows == ~dlListener

\* A failed spawn emits 'error' through process.nextTick: that callback runs
\* before any other callback of the event loop.
TickPending == \E p \in Jobs : dlChild[p].os = "nospawn" /\ ~dlChild[p].errSeen

\* A callback other than that one may run.
Ready == ~dlCrashed /\ ~TickPending

InitDl ==
  /\ dlProcess = 0
  /\ dlIsPaused = FALSE
  /\ dlChild = [p \in Jobs |-> NoChild]
  /\ dlSpawned = 0
  /\ dlLog = [p \in Jobs |-> <<>>]
  /\ dlTimer = [p \in Jobs |-> NoTimer]
  /\ dlPromise = [p \in Jobs |-> NoPromise]
  /\ dlCalls = 0
  /\ dlLastCall = [op |-> "none", acted |-> FALSE]
  /\ dlData = 0
  /\ dlListener \in BOOLEAN
  /\ dlCrashed = FALSE

\* Downloader.download(): spawns and attaches, whatever is attached already.
Download(spawnOk) ==
  /\ Ready
  /\ DlFrame
  /\ dlCalls < MaxCalls
  /\ dlSpawned < MaxJobs
  /\ LET p == dlSpawned + 1 IN
       /\ dlSpawned' = p
       /\ dlChild' = [dlChild EXCEPT ![p] =
            [NoChild EXCEPT !.os = IF spawnOk THEN "running" ELSE "nospawn",
                            !.pid = spawnOk,
                            !.fresh = (dlProcess = 0)]]
       /\ dlProcess' = p
       /\ dlPromise' = [dlPromise EXCEPT ![p] = [NoPromise EXCEPT !.st = "pending"]]
  /\ dlCalls' = dlCalls + 1
  /\ dlLastCall' = [op |-> "download", acted |-> TRUE]
  /\ UNCHANGED <<dlIsPaused, dlLog, dlTimer, dlData, dlListener, dlCrashed>>

\* The promise API: resolve/reject after the first settlement do nothing.
Settle(pr, v) == IF pr = "pending" THEN v ELSE pr

\* resolve(outputFile) / reject(error) of download(): none of the values
\* it settles with holds the child's stderr output.
SettleWith(pr, st, value) ==
  IF pr.st = "pending" THEN [st |-> st, value |-> value, stderr |-> FALSE] ELSE pr

\* `if (this.process && !this.isPaused)` in pause()
PauseGuard == dlProcess # 0 /\ ~dlIsPaused

\* `if (this.process && this.isPaused)` in resume()
ResumeGuard == dlProcess # 0 /\ dlIsPaused

\* `if (this.process)` in cancel()
CancelGuard == dlProcess # 0

\* Downloader.pause()
Pause ==
  /\ Ready
  /\ DlFrame
  /\ dlCalls < MaxCalls
  /\ dlCalls' = dlCalls + 1
  /\ dlLastCall' = [op |-> "pause", acted |-> PauseGuard]
  /\ \/ /\ PauseGuard
        /\ dlChild' = [dlChild EXCEPT ![dlProcess] = Deliver(@, "SIGSTOP")]
        /\ dlIsPaused' = TRUE
        /\ dlLog' = Logged(dlLog, dlProcess, <<"SIGSTOP", "paused">>)
        /\ UNCHANGED <<dlProcess, dlSpawned, dlTimer, dlPromise, dlData, dlListener, dlCrashed>>
     \/ /\ ~PauseGuard
        /\ UNCHANGED <<dlProcess, dlIsPaused, dlChild, dlSpawned, dlLog, dlTimer,
                       dlPromise, dlData, dlListener, dlCrashed>>

\* Downloader.resume()
Resume ==
  /\ Ready
  /\ DlFrame
  /\ dlCalls < MaxCalls
  /\ dlCalls' = dlCalls + 1
  /\ dlLastCall' = [op |-> "resume", acted |-> ResumeGuard]
  /\ \/ /\ ResumeGuard
        /\ dlChild' = [dlChild EXCEPT ![dlProcess] = Deliver(@, "SIGCONT")]
        /\ dlIsPaused' = FALSE
        /\ dlLog' = Logged(dlLog, dlProcess, <<"SIGCONT", "resumed">>)
        /\ UNCHANGED <<dlProcess, dlSpawned, dlTimer, dlPromise, dlData, dlListener, dlCrashed>>
     \/ /\ ~ResumeGuard
        /\ UNCHANGED <<dlProcess, dlIsPaused, dlChild, dlSpawned, dlLog, dlTimer,
                       dlPromise, dlData, dlListener, dlCrashed>>

\* The timer cancel() sets: setTimeout(..., 5000)
ArmedTimer == [st |-> "armed", left |-> KillGraceSeconds]

\* Mutant: cancel() that forgets `this.process = null`.
CancelKeepsHandle ==
  /\ Ready
  /\ DlFrame
  /\ dlCalls < MaxCalls
  /\ dlCalls' = dlCalls + 1
  /\ dlLastCall' = [op |-> "cancel", acted |-> CancelGuard]
  /\ \/ /\ CancelGuard
        /\ dlChild' = [dlChild EXCEPT ![dlProcess] = Deliver(@, "SIGTERM")]
        /\ dlTimer' = [dlTimer EXCEPT ![dlProcess] = ArmedTimer]
        /\ dlIsPaused' = FALSE
        /\ dlLog' = Logged(dlLog, dlProcess, <<"SIGTERM", "cancelled">>)
        /\ UNCHANGED <<dlProcess, dlSpawned, dlPromise, dlData, dlListener, dlCrashed>>
     \/ /\ ~CancelGuard
        /\ UNCHANGED <<dlProcess, dlIsPaused, dlChild, dlSpawned, dlLog, dlTimer,
                       dlPromise, dlData, dlListener, dlCrashed>>

\* Downloader.cancel(): SIGTERM, escalation timer, exit listener, detach,
\* reset of the paused flag, 'cancelled'.
Cancel ==
  /\ Ready
  /\ DlFrame
  /\ dlCalls < MaxCalls
  /\ dlCalls' = dlCalls + 1
  /\ dlLastCall' = [op |-> "cancel", acted |-> CancelGuard]
  /\ \/ /\ CancelGuard
        /\ dlChild' = [dlChild EXCEPT ![dlProcess] = Deliver(@, "SIGTERM")]
        /\ dlTimer' = [dlTimer EXCEPT ![dlProcess] = ArmedTimer]
        /\ dlProcess' = 0
        /\ dlIsPaused' = FALSE
        /\ dlLog' = Logged(dlLog, dlProcess, <<"SIGTERM", "cancelled">>)
        /\ UNCHANGED <<dlSpawned, dlPromise, dlData, dlListener, dlCrashed>>
     \/ /\ ~CancelGuard
        /\ UNCHANGED <<dlProcess, dlIsPaused, dlChild, dlSpawned, dlLog, dlTimer,
                       dlPromise, dlData, dlListener, dlCrashed>>

\* One second passes for every timer that is still running.
Tick ==
  /\ Ready
  /\ DlFrame
  /\ \E p \in Jobs : dlTimer[p].st = "armed" /\ dlTimer[p].left > 0
  /\ dlTimer' = [p \in Jobs |->
       IF dlTimer[p].st = "armed" /\ dlTimer[p].left > 0
       THEN [dlTimer[p] EXCEPT !.left = @ - 1] ELSE dlTimer[p]]
  /\ UNCHANGED <<dlProcess, dlIsPaused, dlChild, dlSpawned, dlLog, dlPromise,
                 dlCalls, dlLastCall, dlData, dlListener, dlCrashed>>

\* Mutant: an escalation that never finds a process to kill.
ProbeFindsNone(p) == FALSE

\* Mutant: the escalation kills without looking at the probe's answer.
ProbeBlind(p) == dlChild[p].pid

\* `if (pid) { process.kill(pid, 0) ...`: the signal-0 probe throws when no
\* process with that pid exists.
ProbeAlive(p) == dlChild[p].pid /\ dlChild[p].os \in {"running", "stopped"}

\* The timer may run its callback once its delay has passed.
TimerDue(p) == dlTimer[p].st = "armed" /\ dlTimer[p].left = 0

\* The escalation callback of cancel().
KillTimeout(p) ==
  /\ Ready
  /\ DlFrame
  /\ TimerDue(p)
  /\ dlTimer' = [dlTimer EXCEPT ![p].st = "fired"]
  /\ \/ /\ ProbeAlive(p)
        /\ dlChild' = [dlChild EXCEPT ![p] = Deliver(@, "SIGKILL")]
        /\ dlLog' = Logged(dlLog, p, <<"SIGKILL">>)
     \/ /\ ~ProbeAlive(p)
        /\ UNCHANGED <<dlChild, dlLog>>
  /\ UNCHANGED <<dlProcess, dlIsPaused, dlSpawned, dlPromise, dlCalls, dlLastCall,
                 dlData, dlListener, dlCrashed>>

\* The child ends on its own, or by a pending SIGTERM once it runs.
ChildExits(p, code) ==
  /\ Ready
  /\ DlFrame
  /\ dlChild[p].os = "running"
  /\ code = "signal" => dlChild[p].term
  /\ dlChild' = [dlChild EXCEPT ![p].os = "dead", ![p].code = code]
  /\ UNCHANGED <<dlProcess, dlIsPaused, dlSpawned, dlLog, dlTimer, dlPromise,
                 dlCalls, dlLastCall, dlData, dlListener, dlCrashed>>

\* `proc.once('exit', () => clearTimeout(killTimeout))`: the listener exists
\* only if cancel() registered it before the 'exit' event was emitted.
OnExit(p) ==
  /\ Ready
  /\ DlFrame
  /\ dlChild[p].os = "dead"
  /\ ~dlChild[p].exitSeen
  /\ dlChild' = [dlChild EXCEPT ![p].exitSeen = TRUE]
  /\ dlTimer' = [dlTimer EXCEPT ![p].st = IF @ = "armed" THEN "cleared" ELSE @]
  /\ UNCHANGED <<dlProcess, dlIsPaused, dlSpawned, dlLog, dlPromise, dlCalls, dlLastCall,
                 dlData, dlListener, dlCrashed>>

\* Data may arrive until the streams are closed.
CanData(p) ==
  /\ dlChild[p].pid
  /\ ~dlChild[p].closeSeen
  /\ dlData < MaxData

\* stdout 'data' handler, one line: a progress line emits 'progress', a
\* destination / already-downloaded line records the output file.
OnStdout(p, line) ==
  /\ Ready
  /\ DlFrame
  /\ CanData(p)
  /\ dlData' = dlData + 1
  /\ dlChild' = [dlChild EXCEPT ![p].outputFile = @ \/ line = "destination"]
  /\ dlLog' = IF line = "progress" THEN Logged(dlLog, p, <<"progress">>) ELSE dlLog
  /\ UNCHANGED <<dlProcess, dlIsPaused, dlSpawned, dlTimer, dlPromise, dlCalls, dlLastCall,
                 dlListener, dlCrashed>>

\* stderr 'data' handler: a message containing 'ERROR' is emitted as 'error'.
OnStderr(p, hasError) ==
  /\ Ready
  /\ DlFrame
  /\ CanData(p)
  /\ dlData' = dlData + 1
  /\ dlChild' = [dlChild EXCEPT ![p].stderr = TRUE]
  /\ IF hasError
     THEN IF EmitErrorThrows
          THEN dlCrashed' = TRUE /\ UNCHANGED dlLog
          ELSE dlLog' = Logged(dlLog, p, <<"error">>) /\ UNCHANGED dlCrashed
     ELSE UNCHANGED <<dlLog, dlCrashed>>
  /\ UNCHANGED <<dlProcess, dlIsPaused, dlSpawned, dlTimer, dlPromise,
                 dlCalls, dlLastCall, dlListener>>

\* 'close' handler of job p: detaches whatever is attached, then completes
\* or fails the job by the exit code.
OnClose(p) ==
  /\ Ready
  /\ DlFrame
  /\ ~dlChild[p].closeSeen
  /\ dlChild[p].exitSeen \/ (dlChild[p].os = "nospawn" /\ dlChild[p].errSeen)
  /\ dlChild' = [dlChild EXCEPT ![p].closeSeen = TRUE]
  /\ dlProcess' = 0
  /\ IF dlChild[p].code = "zero"
     THEN /\ dlLog' = Logged(dlLog, p, <<"complete">>)
          /\ dlPromise' = [dlPromise EXCEPT ![p] =
               SettleWith(@, "resolved", IF dlChild[p].outputFile THEN "path" ELSE "empty")]
          /\ UNCHANGED dlCrashed
     ELSE IF EmitErrorThrows
          THEN /\ dlCrashed' = TRUE
               /\ UNCHANGED <<dlLog, dlPromise>>
          ELSE /\ dlLog' = Logged(dlLog, p, <<"error">>)
               /\ dlPromise' = [dlPromise EXCEPT ![p] = SettleWith(@, "rejected", "exit-code")]
               /\ UNCHANGED dlCrashed
  /\ UNCHANGED <<dlIsPaused, dlSpawned, dlTimer, dlCalls, dlLastCall, dlData, dlListener>>

\* 'error' handler of job p (the spawn failed): detach, 'error', reject.
OnError(p) ==
  /\ ~dlCrashed
  /\ DlFrame
  /\ dlChild[p].os = "nospawn"
  /\ ~dlChild[p].errSeen
  /\ dlChild' = [dlChild EXCEPT ![p].errSeen = TRUE]
  /\ dlProcess' = 0
  /\ IF EmitErrorThrows
     THEN /\ dlCrashed' = TRUE
          /\ UNCHANGED <<dlLog, dlPromise>>
     ELSE /\ dlLog' = Logged(dlLog, p, <<"error">>)
          /\ dlPromise' = [dlPromise EXCEPT ![p] = SettleWith(@, "rejected", "spawn-error")]
          /\ UNCHANGED dlCrashed
  /\ UNCHANGED <<dlIsPaused, dlSpawned, dlTimer, dlCalls, dlLastCall, dlData, dlListener>>
NextDl ==
  \/ \E ok \in BOOLEAN : Download(ok)
  \/ Pause
  \/ Resume
  \/ Cancel
  \/ Tick
  \/ \E p \in Jobs : KillTimeout(p)
  \/ \E p \in Jobs, code \in {"zero", "nonzero", "signal"} : ChildExits(p, code)
  \/ \E p \in Jobs : OnExit(p)
  \/ \E p \in Jobs, line \in {"progress", "destination", "other"} : OnStdout(p, line)
  \/ \E p \in Jobs, hasError \in BOOLEAN : OnStderr(p, hasError)
  \/ \E p \in Jobs : OnClose(p)
  \/ \E p \in Jobs : OnError(p)

\* ================================================================ Transcriber
TrJobs == 1..MaxTrJobs

\* A transcribe() call that was not made yet.
NoTrJob ==
  [pc |-> "none", needsWav |-> FALSE, promise |-> "none", err |-> "none",
   os |-> "none", term |-> FALSE, code |-> "none", out |-> "none",
   closeSeen |-> FALSE, errSeen |-> FALSE]

InitTr ==
  /\ trProcess = 0
  /\ tempWavFile = 0
  /\ trJob = [t \in TrJobs |-> NoTrJob]
  /\ trStarted = 0
  /\ trWav \in [TrJobs -> {"absent", "user"}]
  /\ trLog = [t \in TrJobs |-> <<>>]
  /\ whisperExists \in BOOLEAN
  /\ modelExists \in BOOLEAN
  /\ trCalls = 0
  /\ trData = 0
  /\ trListener \in BOOLEAN
  /\ trCrashed = FALSE
  /\ trCancelled = {}

\* The component at rest, for the specifications of the other components.
DlQuiet == InitDl /\ dlListener
TrQuiet ==
  InitTr /\ whisperExists /\ modelExists /\ trListener /\ trWav = [t \in TrJobs |-> "absent"]

\* The engine's failed spawn emits 'error' through process.nextTick.
TrTickPending == \E t \in TrJobs : trJob[t].os = "nospawn" /\ ~trJob[t].errSeen
TrReady == ~trCrashed /\ ~TrTickPending

\* reject(new Error(...)) / throw inside the async function
Rejected(j, why) ==
  [j EXCEPT !.pc = "done", !.promise = Settle(@, "rejected"),
            !.err = IF j.promise = "pending" THEN why ELSE @]
Resolved(j) == [j EXCEPT !.pc = "done", !.promise = Settle(@, "resolved")]

\* cleanupTempFile(): unlink the file tempWavFile names, if it exists, and
\* forget the name.
CleanupFires(twf, wav) == twf # 0 /\ wav[twf] # "absent"
CleanedWav(twf, wav) ==
  IF CleanupFires(twf, wav) THEN [wav EXCEPT ![twf] = "absent"] ELSE wav
CleanedName(twf, wav) == IF CleanupFires(twf, wav) THEN 0 ELSE twf

\* The promise executor of transcribe(): the two existence checks reject
\* and return; otherwise 'progress' is emitted and the engine is spawned.
EngineSpawns == whisperExists /\ modelExists
Executor(j, spawnOk) ==
  IF ~whisperExists THEN Rejected(j, "no-binary")
  ELSE IF ~modelExists THEN Rejected(j, "no-model")
  ELSE [j EXCEPT !.pc = "engine", !.os = IF spawnOk THEN "running" ELSE "nospawn"]

\* transcribe(), up to `await this.getAudioDuration(...)`.
Transcribe(srcExists, needsWav) ==
  /\ TrReady
  /\ TrFrame
  /\ trStarted < MaxTrJobs
  /\ trStarted' = trStarted + 1
  /\ trJob' = [trJob EXCEPT ![trStarted + 1] =
       IF srcExists
       THEN [NoTrJob EXCEPT !.pc = "probe", !.needsWav = needsWav,
                            !.promise = "pending"]
       ELSE [NoTrJob EXCEPT !.pc = "done", !.needsWav = needsWav,
                            !.promise = "rejected", !.err = "no-audio"]]
  /\ UNCHANGED <<trProcess, tempWavFile, trWav, trLog, whisperExists, modelExists,
                 trCalls, trData, trListener, trCrashed,
                 trCancelled>>

\* The duration probe has answered: an unsupported extension starts the
\* conversion, a supported one goes on to the executor.
ProbeDone(t, spawnOk) ==
  /\ TrReady
  /\ TrFrame
  /\ trJob[t].pc = "probe"
  /\ IF trJob[t].needsWav
     THEN /\ trJob' = [trJob EXCEPT ![t].pc = "convert"]
          /\ trLog' = Logged(trLog, t, <<"progress">>)
          /\ UNCHANGED trProcess
     ELSE /\ trJob' = [trJob EXCEPT ![t] = Executor(@, spawnOk)]
          /\ trLog' = IF EngineSpawns THEN Logged(trLog, t, <<"progress">>) ELSE trLog
          /\ trProcess' = IF EngineSpawns THEN t ELSE trProcess
  /\ UNCHANGED <<tempWavFile, trStarted, trWav, whisperExists, modelExists,
                 trCalls, trData, trListener, trCrashed,
                 trCancelled>>

\* convertToWav() has settled.  On success the WAV exists and its name is
\* stored in tempWavFile before the executor runs; on failure transcribe()
\* rejects, and ffmpeg may have left a partial file.
ConvertDone(t, result, spawnOk) ==
  /\ TrReady
  /\ TrFrame
  /\ trJob[t].pc = "convert"
  /\ IF result = "ok"
     THEN /\ trWav' = [trWav EXCEPT ![t] = "complete"]
          /\ tempWavFile' = t
          /\ trJob' = [trJob EXCEPT ![t] = Executor(@, spawnOk)]
          /\ trLog' = IF EngineSpawns THEN Logged(trLog, t, <<"progress">>) ELSE trLog
          /\ trProcess' = IF EngineSpawns THEN t ELSE trProcess
     ELSE /\ trWav' = [trWav EXCEPT ![t] = IF result = "partial" THEN "partial" ELSE @]
          /\ trJob' = [trJob EXCEPT ![t] = Rejected(@, "convert")]
          /\ UNCHANGED <<tempWavFile, trLog, trProcess>>
  /\ UNCHANGED <<trStarted, whisperExists, modelExists, trCalls, trData,
                 trListener, trCrashed,
                 trCancelled>>

\* The engine ends; with exit code 0 it has written the transcript under
\* the expected name, under a variant of it, or not at all.
EngineExits(t, code, out) ==
  /\ TrReady
  /\ TrFrame
  /\ trJob[t].os = "running"
  /\ code = "signal" => trJob[t].term
  /\ code # "zero" => out = "none"
  /\ trJob' = [trJob EXCEPT ![t].os = "dead", ![t].code = code, ![t].out = out]
  /\ UNCHANGED <<trProcess, tempWavFile, trStarted, trWav, trLog, whisperExists,
                 modelExists, trCalls, trData, trListener, trCrashed,
                 trCancelled>>

\* stdout/stderr 'data' handlers: parseProgress emits 'progress' for a
\* chunk that holds a progress token or a caption timestamp.
OnEngineData(t, hasProgress) ==
  /\ TrReady
  /\ TrFrame
  /\ trJob[t].os \in {"running", "dead"}
  /\ ~trJob[t].closeSeen
  /\ trData < MaxData
  /\ trData' = trData + 1
  /\ trLog' = IF hasProgress THEN Logged(trLog, t, <<"progress">>) ELSE trLog
  /\ UNCHANGED <<trProcess, tempWavFile, trJob, trStarted, trWav, whisperExists,
                 modelExists, trCalls, trListener, trCrashed,
                 trCancelled>>

\* What the 'close' handler does after `this.process = null`, when
\* emit('error') does not throw.
CloseOutcome(j) ==
  IF j.code = "zero" /\ j.out # "none" THEN Resolved(j)
  ELSE IF j.code = "zero" THEN Rejected(j, "no-output")
  ELSE Rejected(j, "exit")
CloseEvents(j) ==
  IF j.code = "zero" /\ j.out = "exact" THEN <<"progress", "complete">>
  ELSE IF j.code = "zero" /\ j.out = "variant" THEN <<"complete">>
  ELSE <<"error">>

\* 'close' handler of the engine of job t.
OnEngineClose(t) ==
  /\ TrReady
  /\ TrFrame
  /\ ~trJob[t].closeSeen
  /\ trJob[t].os = "dead" \/ (trJob[t].os = "nospawn" /\ trJob[t].errSeen)
  /\ trProcess' = 0
  /\ IF CloseEvents(trJob[t]) = <<"error">> /\ ~trListener
     THEN /\ trCrashed' = TRUE
          /\ trJob' = [trJob EXCEPT ![t].closeSeen = TRUE]
          /\ UNCHANGED <<trLog, trWav, tempWavFile>>
     ELSE /\ trJob' = [trJob EXCEPT ![t] = [CloseOutcome(@) EXCEPT !.closeSeen = TRUE]]
          /\ trLog' = Logged(trLog, t, CloseEvents(trJob[t]))
          /\ trWav' = CleanedWav(tempWavFile, trWav)
          /\ tempWavFile' = CleanedName(tempWavFile, trWav)
          /\ UNCHANGED trCrashed
  /\ UNCHANGED <<trStarted, whisperExists, modelExists, trCalls, trData, trListener,
                 trCancelled>>

\* 'error' handler of the engine of job t (the spawn failed).
OnEngineError(t) ==
  /\ ~trCrashed
  /\ TrFrame
  /\ trJob[t].os = "nospawn"
  /\ ~trJob[t].errSeen
  /\ trProcess' = 0
  /\ IF ~trListener
     THEN /\ trCrashed' = TRUE
          /\ trJob' = [trJob EXCEPT ![t].errSeen = TRUE]
          /\ UNCHANGED <<trLog, trWav, tempWavFile>>
     ELSE /\ trJob' = [trJob EXCEPT ![t] = [Rejected(@, "spawn") EXCEPT !.errSeen = TRUE]]
          /\ trLog' = Logged(trLog, t, <<"error">>)
          /\ trWav' = CleanedWav(tempWavFile, trWav)
          /\ tempWavFile' = CleanedName(tempWavFile, trWav)
          /\ UNCHANGED trCrashed
  /\ UNCHANGED <<trStarted, whisperExists, modelExists, trCalls, trData, trListener,
                 trCancelled>>

\* Transcriber.cancel()
TrCancel ==
  /\ TrReady
  /\ TrFrame
  /\ trCalls < MaxTrCalls
  /\ trCalls' = trCalls + 1
  /\ IF trProcess # 0
     THEN /\ trJob' = [trJob EXCEPT ![trProcess].term = TRUE]
          /\ trLog' = Logged(trLog, trProcess, <<"SIGTERM", "cancelled">>)
          /\ trProcess' = 0
     ELSE UNCHANGED <<trJob, trLog, trProcess>>
  /\ trWav' = CleanedWav(tempWavFile, trWav)
  /\ tempWavFile' = CleanedName(tempWavFile, trWav)
  /\ trCancelled' = trCancelled \cup {t \in TrJobs : trJob[t].pc # "none"}
  /\ UNCHANGED <<trStarted, whisperExists, modelExists, trData, trListener, trCrashed>>

NextTr ==
  \/ \E srcExists \in BOOLEAN, needsWav \in BOOLEAN : Transcribe(srcExists, needsWav)
  \/ \E t \in TrJobs, ok \in BOOLEAN : ProbeDone(t, ok)
  \/ \E t \in TrJobs, r \in {"ok", "failed", "partial"}, ok \in BOOLEAN :
       ConvertDone(t, r, ok)
  \/ \E t \in TrJobs, code \in {"zero", "nonzero", "signal"},
        out \in {"exact", "variant", "none"} : EngineExits(t, code, out)
  \/ \E t \in TrJobs, hasProgress \in BOOLEAN : OnEngineData(t, hasProgress)
  \/ \E t \in TrJobs : OnEngineClose(t)
  \/ \E t \in TrJobs : OnEngineError(t)
  \/ TrCancel

\* ============================================ BinaryManager: one acquisition
Callers == 1..MaxCallers

\* A downloadBinary / downloadWhisperModel call that was not made yet.
\* `update` tells that the call came through updateYtDlp, `had` that
\* updateYtDlp found a binary at the target path.
NoCall ==
  [pc |-> "idle", got |-> 0, clean |-> TRUE, cause |-> "none", err |-> "none",
   out |-> "none", update |-> FALSE, had |-> FALSE]

InitAc ==
  /\ acKind \in {"plain", "zip", "model"}
  /\ acUrl \in {"https", "empty", "undefined"}
  /\ acUrl = "empty" => acKind # "model"
  /\ acDeclared \in {0, ArtifactSize}
  /\ fsDest = "absent"
  /\ fsFinal \in {"absent", "old"}
  /\ acCall = [c \in Callers |-> NoCall]
  /\ acStarted = 0
  /\ acRequests = 0
  /\ acUnlinkQ = 0

AcQuiet == InitAc /\ acKind = "plain" /\ acUrl = "https" /\ acDeclared = ArtifactSize /\ fsFinal = "absent"

InFlight(c) == acCall[c].pc \notin {"idle", "done"}

\* Another caller's open write stream on the same path no longer holds
\* what it wrote alone.
Touched(calls, c) ==
  [k \in Callers |->
     IF k # c /\ calls[k].pc = "body" THEN [calls[k] EXCEPT !.clean = FALSE]
     ELSE calls[k]]

\* What lies at destPath once the stream of caller c has been closed.
Written(c) ==
  IF fsDest = "absent" THEN "absent"
  ELSE IF acCall[c].got = ArtifactSize /\ acCall[c].clean THEN "complete"
  ELSE "partial"

\* cleanup(err) of downloadFile: queue fs.unlink(destPath), reject.  The
\* rejection reaches the catch block of the caller.
Failing(call, why) == [call EXCEPT !.pc = "catch", !.cause = why, !.err = why]

\* The call ends: its promise rejects with err.
Thrown(call, err) == [call EXCEPT !.pc = "done", !.out = "failed", !.err = err]

\* JavaScript's `!url`: true for undefined and for the empty string.
Falsy(url) == url \in {"undefined", "empty"}

\* The throws that precede the download.  downloadBinary:
\*   if (!urls || !urls[platform] || !urls[platform][arch]) throw 'No binary URL available ...'
\*   const url = urls[platform][arch]
\*   if (!url) { throw '... <install instructions>' }
\* downloadWhisperModel:
\*   if (!url) throw 'Unknown whisper model ...'
CatalogError ==
  IF acKind = "model"
  THEN IF Falsy(acUrl) THEN "unknown-model" ELSE "none"
  ELSE IF Falsy(acUrl) THEN "no-binary-url"
  ELSE IF Falsy(acUrl) THEN "install-instructions"
  ELSE "none"

\* downloadBinary(name) / downloadWhisperModel(name) up to the GET request
\* that downloadFile's followRedirect issues.
DownloadBinary(c) ==
  /\ AcFrame
  /\ c = acStarted + 1
  /\ acCall[c].pc = "idle"
  /\ acStarted' = acStarted + 1
  /\ IF CatalogError = "none"
     THEN /\ acRequests' = acRequests + 1
          /\ acCall' = [acCall EXCEPT ![c].pc = "request"]
     ELSE /\ acCall' = [acCall EXCEPT ![c] =
               [Thrown(@, CatalogError) EXCEPT !.cause = CatalogError]]
          /\ UNCHANGED acRequests
  /\ UNCHANGED <<acKind, acUrl, acDeclared, fsDest, fsFinal, acUnlinkQ>>

\* updateYtDlp(): the installed binary is removed if there is one, then
\* downloadBinary('yt-dlp') runs up to its GET request.
UpdateYtDlp(c) ==
  /\ AcFrame
  /\ acKind = "plain"
  /\ c = acStarted + 1
  /\ acCall[c].pc = "idle"
  /\ acStarted' = acStarted + 1
  /\ fsFinal' = "absent"
  /\ LET call == [acCall[c] EXCEPT !.update = TRUE, !.had = (fsFinal # "absent")] IN
       IF CatalogError = "none"
       THEN /\ acRequests' = acRequests + 1
            /\ acCall' = [acCall EXCEPT ![c] = [call EXCEPT !.pc = "request"]]
       ELSE /\ acCall' = [acCall EXCEPT ![c] =
                 [Thrown(call, CatalogError) EXCEPT !.cause = CatalogError]]
            /\ UNCHANGED acRequests
  /\ UNCHANGED <<acKind, acUrl, acDeclared, fsDest, acUnlinkQ>>

\* The response callback of protocol.get, or the request's 'error' event.
OnResponse(c, status) ==
  /\ AcFrame
  /\ acCall[c].pc = "request"
  /\ IF status = "ok"
     THEN /\ fsDest' = "partial"
          /\ acCall' = [Touched(acCall, c) EXCEPT ![c].pc = "body", ![c].got = 0,
                                                  ![c].clean = TRUE]
          /\ UNCHANGED acUnlinkQ
     ELSE /\ acCall' = [acCall EXCEPT ![c] = Failing(@, status)]
          /\ acUnlinkQ' = acUnlinkQ + 1
          /\ UNCHANGED fsDest
  /\ UNCHANGED <<acKind, acUrl, acDeclared, fsFinal, acStarted, acRequests>>

\* response.on('data'): one chunk, piped into the file.
OnChunk(c) ==
  /\ AcFrame
  /\ acCall[c].pc = "body"
  /\ acCall[c].got < ArtifactSize
  /\ acCall' = [Touched(acCall, c) EXCEPT ![c].got = @ + 1]
  /\ UNCHANGED <<acKind, acUrl, acDeclared, fsDest, fsFinal, acStarted, acRequests, acUnlinkQ>>

\* response.on('error'): file.destroy(); cleanup(err)
OnStreamError(c) ==
  /\ AcFrame
  /\ acCall[c].pc = "body"
  /\ acCall' = [acCall EXCEPT ![c] = Failing(@, "stream")]
  /\ acUnlinkQ' = acUnlinkQ + 1
  /\ UNCHANGED <<acKind, acUrl, acDeclared, fsDest, fsFinal, acStarted, acRequests>>

SizeMismatch(c) == acDeclared > 0 /\ acCall[c].got < acDeclared

\* file.on('finish') -> file.close callback: the size check, and on success
\* the continuation of the caller after `await this.downloadFile(...)`.
\* A plain binary or a model is moved to the final path (and made
\* executable); a zip goes on to extraction.
OnFinish(c) ==
  /\ AcFrame
  /\ acCall[c].pc = "body"
  /\ IF SizeMismatch(c)
     THEN /\ acCall' = [acCall EXCEPT ![c] = Failing(@, "incomplete")]
          /\ acUnlinkQ' = acUnlinkQ + 1
          /\ fsDest' = Written(c)
          /\ UNCHANGED fsFinal
     ELSE /\ UNCHANGED acUnlinkQ
          /\ IF acKind = "zip"
             THEN /\ fsDest' = Written(c)
                  /\ acCall' = [acCall EXCEPT ![c].pc = "extract"]
                  /\ UNCHANGED fsFinal
             ELSE IF Written(c) = "absent"
             THEN \* unlinkSync(target), then renameSync throws ENOENT
                  /\ fsFinal' = "absent"
                  /\ acCall' = [acCall EXCEPT ![c] = [Thrown(@, "enoent") EXCEPT !.cause = "enoent"]]
                  /\ UNCHANGED fsDest
             ELSE /\ fsFinal' = Written(c)
                  /\ fsDest' = "absent"
                  /\ acCall' = [acCall EXCEPT ![c].pc = "done", ![c].out = "ok"]
  /\ UNCHANGED <<acKind, acUrl, acDeclared, acStarted, acRequests>>

\* A thread of the libuv pool runs a queued fs.unlink(destPath); its
\* callback ignores the result.
ThreadUnlink ==
  /\ AcFrame
  /\ acUnlinkQ > 0
  /\ acUnlinkQ' = acUnlinkQ - 1
  /\ fsDest' = "absent"
  /\ UNCHANGED <<acKind, acUrl, acDeclared, fsFinal, acCall, acStarted, acRequests>>

\* Mutant: a catch block that rethrows without removing anything.
CatchRethrows(c) ==
  /\ AcFrame
  /\ acCall[c].pc = "catch"
  /\ acCall' = [acCall EXCEPT ![c] = Thrown(@, @.err)]
  /\ UNCHANGED <<acKind, acUrl, acDeclared, fsDest, fsFinal, acStarted, acRequests, acUnlinkQ>>

\* catch block of the caller: fs.existsSync(tempPath) (for a zip,
\* fs.existsSync(tempPath + '.zip')).  The pool thread runs beside the main
\* thread, so the queued unlink may land before this test, after it, or
\* after the unlinkSync that follows.
CatchExists(c) ==
  /\ AcFrame
  /\ acCall[c].pc = "catch"
  /\ acCall' = [acCall EXCEPT ![c] =
       IF fsDest = "absent" THEN Thrown(@, @.err) ELSE [@ EXCEPT !.pc = "catchUnlink"]]
  /\ UNCHANGED <<acKind, acUrl, acDeclared, fsDest, fsFinal, acStarted, acRequests, acUnlinkQ>>

\* catch block of the caller: fs.unlinkSync of the file found, then
\* `throw error`.  unlinkSync throws ENOENT when the file is gone by now,
\* and that exception leaves the catch block instead.
CatchUnlink(c) ==
  /\ AcFrame
  /\ acCall[c].pc = "catchUnlink"
  /\ acCall' = [acCall EXCEPT ![c] =
       IF fsDest = "absent" THEN Thrown(@, "enoent") ELSE Thrown(@, @.err)]
  /\ fsDest' = "absent"
  /\ UNCHANGED <<acKind, acUrl, acDeclared, fsFinal, acStarted, acRequests, acUnlinkQ>>

\* extractZip: unzip -o / Expand-Archive -Force writes into binDir, that
\* is, to the final target path itself.
ExtractWrites(c) ==
  /\ AcFrame
  /\ acCall[c].pc = "extract"
  /\ fsDest # "absent"
  /\ fsFinal' = "partial"
  /\ acCall' = [acCall EXCEPT ![c].pc = "extracting"]
  /\ UNCHANGED <<acKind, acUrl, acDeclared, fsDest, acStarted, acRequests, acUnlinkQ>>

\* 'close' of the unzip process, and the continuation of downloadBinary:
\* code 0 -> unlinkSync(zip), chmod, 'binary-ready'; otherwise the catch
\* block removes the zip and rethrows.
ExtractClose(c, ok) ==
  /\ AcFrame
  /\ acCall[c].pc \in {"extract", "extracting"}
  /\ ok => (acCall[c].pc = "extracting" /\ fsDest = "complete")
  /\ fsDest' = "absent"
  /\ IF ok
     THEN /\ fsFinal' = "complete"
          /\ acCall' = [acCall EXCEPT ![c].pc = "done", ![c].out = "ok"]
     ELSE /\ acCall' = [acCall EXCEPT ![c] = [Thrown(@, "unzip") EXCEPT !.cause = "unzip"]]
          /\ UNCHANGED fsFinal
  /\ UNCHANGED <<acKind, acUrl, acDeclared, acStarted, acRequests, acUnlinkQ>>

NextAc ==
  \/ \E c \in Callers : DownloadBinary(c)
  \/ \E c \in Callers : UpdateYtDlp(c)
  \/ \E c \in Callers, status \in {"ok", "http", "network"} : OnResponse(c, status)
  \/ \E c \in Callers : OnChunk(c)
  \/ \E c \in Callers : OnStreamError(c)
  \/ \E c \in Callers : OnFinish(c)
  \/ ThreadUnlink
  \/ \E c \in Callers : CatchExists(c)
  \/ \E c \in Callers : CatchUnlink(c)
  \/ \E c \in Callers : ExtractWrites(c)
  \/ \E c \in Callers, ok \in BOOLEAN : ExtractClose(c, ok)

\* ========================================= BinaryManager.downloadAllBinaries
AllCalls == 1..MaxAllCalls

Platforms == {"linux", "darwin", "win32"}

NoRun == [pc |-> "none", needYt |-> FALSE, needDeno |-> FALSE, outcome |-> "none"]
NoAllCall == [awaits |-> 0, outcome |-> "none"]

InitDa ==
  /\ downloadInProgress = 0
  /\ daRun = [r \in AllCalls |-> NoRun]
  /\ daCall = [k \in AllCalls |-> NoAllCall]
  /\ daCalls = 0
  /\ daStatusChecks = 0
  /\ daDownloads = 0
  /\ ytReady \in BOOLEAN
  /\ denoReady \in BOOLEAN
  /\ daPlatform \in Platforms

DaQuiet == InitDa /\ ytReady /\ denoReady /\ daPlatform = "linux"

\* `this.downloadInProgress = doDownload()`: doDownload runs up to its
\* first await, inside checkBinaryStatus().
StartRun(k) ==
  /\ daRun' = [daRun EXCEPT ![k].pc = "status"]
  /\ daStatusChecks' = daStatusChecks + 1
  /\ downloadInProgress' = k
  /\ daCall' = [daCall EXCEPT ![k].awaits = k]
  /\ UNCHANGED daDownloads

\* `return this.downloadInProgress`
JoinRun(k) ==
  /\ daCall' = [daCall EXCEPT ![k].awaits = downloadInProgress]
  /\ UNCHANGED <<daRun, daStatusChecks, downloadInProgress, daDownloads>>

\* What the mutation of the in-flight guard does: every call starts a run.
DownloadAllUnguarded ==
  /\ DaFrame
  /\ daCalls < MaxAllCalls
  /\ daCalls' = daCalls + 1
  /\ StartRun(daCalls + 1)
  /\ UNCHANGED <<ytReady, denoReady, daPlatform>>

\* downloadAllBinaries()
DownloadAllBinaries ==
  /\ DaFrame
  /\ daCalls < MaxAllCalls
  /\ daCalls' = daCalls + 1
  /\ IF downloadInProgress # 0 THEN JoinRun(daCalls + 1) ELSE StartRun(daCalls + 1)
  /\ UNCHANGED <<ytReady, denoReady, daPlatform>>

\* The `finally` of doDownload, and the run's promise settling.
Ended(run, outcome) == [run EXCEPT !.pc = "done", !.outcome = outcome]

\* doDownload after `await this.checkBinaryStatus()`: the first missing
\* binary is requested, or there is nothing to do.
AfterStatus(run) ==
  IF run.needYt THEN [run EXCEPT !.pc = "ytdlp"]
  ELSE IF run.needDeno THEN [run EXCEPT !.pc = "deno"]
  ELSE Ended(run, "ok")

\* doDownload after an `await this.downloadBinary(...)`.
AfterDownload(run, ok) ==
  IF ~ok THEN Ended(run, IF run.pc = "ytdlp" THEN "ytdlp-failed" ELSE "deno-failed")
  ELSE IF run.pc = "ytdlp" /\ run.needDeno THEN [run EXCEPT !.pc = "deno"]
  ELSE Ended(run, "ok")

\* Mutant: a `finally` that does not reset downloadInProgress.
AdvanceKeepsGuard(r, next) ==
  /\ daRun' = [daRun EXCEPT ![r] = next]
  /\ daDownloads' = IF next.pc \in {"ytdlp", "deno"} THEN daDownloads + 1 ELSE daDownloads
  /\ UNCHANGED downloadInProgress

\* A step of doDownload: it counts the downloadBinary() call it makes, and
\* its `finally` resets downloadInProgress when it ends.
Advance(r, next) ==
  /\ daRun' = [daRun EXCEPT ![r] = next]
  /\ daDownloads' = IF next.pc \in {"ytdlp", "deno"} THEN daDownloads + 1 ELSE daDownloads
  /\ downloadInProgress' = IF next.pc = "done" THEN 0 ELSE downloadInProgress

StatusDone(r) ==
  /\ DaFrame
  /\ daRun[r].pc = "status"
  /\ Advance(r, AfterStatus([daRun[r] EXCEPT !.needYt = ~ytReady, !.needDeno = ~denoReady]))
  /\ UNCHANGED <<daCall, daCalls, daStatusChecks, ytReady, denoReady, daPlatform>>

\* What a successful downloadBinary() leaves at the target path: the file is
\* written with the default mode and gets its execute bits from
\* `fs.chmodSync(targetPath, 0o755)`, which runs on every platform but win32.
\* checkBinary() counts a binary as executable by `stats.mode & 0o111` alone.
ExecutableAfterDownload(platform) == platform # "win32"

DownloadDone(r, ok) ==
  /\ DaFrame
  /\ daRun[r].pc \in {"ytdlp", "deno"}
  /\ Advance(r, AfterDownload(daRun[r], ok))
  /\ ytReady' = IF ok /\ daRun[r].pc = "ytdlp"
                THEN ExecutableAfterDownload(daPlatform) ELSE ytReady
  /\ denoReady' = IF ok /\ daRun[r].pc = "deno"
                  THEN ExecutableAfterDownload(daPlatform) ELSE denoReady
  /\ UNCHANGED <<daCall, daCalls, daStatusChecks, daPlatform>>

\* The promise a call returned settles as the run it adopted.
CallSettles(k) ==
  /\ DaFrame
  /\ daCall[k].awaits # 0
  /\ daCall[k].outcome = "none"
  /\ daRun[daCall[k].awaits].pc = "done"
  /\ daCall' = [daCall EXCEPT ![k].outcome = daRun[daCall[k].awaits].outcome]
  /\ UNCHANGED <<downloadInProgress, daRun, daCalls, daStatusChecks, daDownloads,
                 ytReady, denoReady, daPlatform>>

NextDa ==
  \/ DownloadAllBinaries
  \/ \E r \in AllCalls : StatusDone(r)
  \/ \E r \in AllCalls, ok \in BOOLEAN : DownloadDone(r, ok)
  \/ \E k \in AllCalls : CallSettles(k)

\* ================================== the CLI: main, transcribeCommand, handleError
\* enum ExitCode
ExitCode == [Success |-> 0, GeneralError |-> 1, InvalidArguments |-> 2,
             NetworkError |-> 3, TranscriptionError |-> 4, BinaryNotFound |-> 5]

\* The process has not exited.
NoExit == -1

NoStatus == [checked |-> FALSE, ytdlp |-> FALSE, deno |-> FALSE]

InitCli ==
  /\ cliEntry \in {"main", "direct"}
  /\ cliArgs \in [format : BOOLEAN, audioFormat : BOOLEAN, model : BOOLEAN, url : BOOLEAN]
  /\ cliPc = IF cliEntry = "main" THEN "main" ELSE "args"
  /\ cliEnd = "running"
  /\ cliErr = "none"
  /\ tempDir = "none"
  /\ cliOpts \in [output : BOOLEAN, keepAudio : BOOLEAN, stdout : BOOLEAN]
  /\ cliData = 0
  /\ cliStatus = NoStatus
  /\ cliIo = {}
  /\ cliExit = NoExit

CliQuiet ==
  /\ InitCli
  /\ cliEntry = "direct"
  /\ cliArgs = [format |-> TRUE, audioFormat |-> TRUE, model |-> TRUE, url |-> TRUE]
  /\ ~cliOpts.output /\ ~cliOpts.keepAudio /\ ~cliOpts.stdout

\* `new CliError(message, exitCode)` and `new Error(message)`.  Of a message
\* the model keeps which of the substrings that are looked for it contains.
Cli(exitCode, words) == [cli |-> TRUE, exitCode |-> exitCode, words |-> words]
Plain(words) == [cli |-> FALSE, exitCode |-> ExitCode.GeneralError, words |-> words]

\* The errors that reach the end of transcribeCommand or the catch of main.
\* Paths below the temp directory (<tmpdir>/yt-transcribe/transcribe-XXXXXX)
\* and the default data directory contain "transcri".
ErrorOf(err) ==
  CASE err = "unknown-option" -> Plain({})
    [] err \in {"invalid-format", "invalid-audio-format", "invalid-model",
                "invalid-url", "invalid-path"} -> Cli(ExitCode.InvalidArguments, {})
    [] err = "ytdlp-not-found" ->
         Cli(ExitCode.BinaryNotFound, {"yt-dlp", "not found", "yt-transcribe --setup"})
    [] err = "deno-not-found" ->
         Cli(ExitCode.BinaryNotFound, {"not found", "yt-transcribe --setup"})
    [] err = "whisper-not-found" ->
         Cli(ExitCode.BinaryNotFound, {"Whisper binary not found", "not found"})
    [] err = "model-network" -> Cli(ExitCode.BinaryNotFound, {})
    [] err = "mkdtemp" -> Plain({"transcri"})
    [] err = "no-audio" -> Plain({"not found", "transcri"})
    [] err = "convert" -> Plain({"audio"})
    [] err = "no-binary" -> Plain({"Whisper binary not found", "not found"})
    [] err = "no-model" -> Plain({"not found", "transcri"})
    [] err = "read" -> Plain({"transcri"})
    [] err = "copy" -> Plain({"transcri"})
    [] OTHER -> Plain({})

\* handleError(error): the exit code it passes to process.exit
HandleError(error) ==
  IF error.cli THEN error.exitCode
  ELSE IF error.words \cap {"Whisper binary not found", "whisper-cpp"} # {}
    THEN ExitCode.BinaryNotFound
  ELSE IF "yt-dlp" \in error.words /\ error.words \cap {"not found", "ENOENT"} # {}
    THEN ExitCode.BinaryNotFound
  ELSE IF error.words \cap {"network", "ENOTFOUND", "ECONNREFUSED", "fetch"} # {}
    THEN ExitCode.NetworkError
  ELSE IF error.words \cap {"transcri", "whisper", "audio"} # {}
    THEN ExitCode.TranscriptionError
  ELSE ExitCode.GeneralError

\* How the process ends.  An uncaught exception ends it with code 1; what
\* transcribeCommand threw reaches handleError only through main.
ExitOf(entry, how, err) ==
  IF how = "crashed" THEN ExitCode.GeneralError
  ELSE IF entry # "main" THEN NoExit
  ELSE IF how = "returned" THEN ExitCode.Success
  ELSE HandleError(ErrorOf(err))

\* `throw` before the try block, or the promise of transcribeCommand
\* rejecting/resolving after the finally block.
CliEnds(how, err) ==
  /\ cliPc' = "over"
  /\ cliEnd' = how
  /\ cliErr' = err
  /\ cliExit' = ExitOf(cliEntry, how, err)

\* The command goes on to its next await.
CliGoes(pc) ==
  /\ cliPc' = pc
  /\ UNCHANGED <<cliEnd, cliErr, cliExit>>

\* finally { fs.rmSync(tempDir, { recursive: true, force: true }) }
Finally(how, err) ==
  /\ CliEnds(how, err)
  /\ tempDir' = "removed"

\* An exception thrown inside an event callback (emit('error') without an
\* 'error' listener): nothing catches it, the process ends there.
Uncaught(err) ==
  /\ CliEnds("crashed", err)
  /\ UNCHANGED tempDir

\* parseCliArgs(argv): parseArgs with `strict: true` throws on an option it
\* does not know; then format, audio format and model are validated.
ParseCliArgs(args, known) ==
  IF ~known THEN "unknown-option"
  ELSE IF ~args.format THEN "invalid-format"
  ELSE IF ~args.audioFormat THEN "invalid-audio-format"
  ELSE IF ~args.model THEN "invalid-model"
  ELSE "none"

\* main() up to its call of transcribeCommand.
Main(known) ==
  /\ CliFrame
  /\ cliPc = "main"
  /\ LET err == ParseCliArgs(cliArgs, known) IN
       IF err # "none" THEN CliEnds("thrown", err)
       ELSE IF ~cliArgs.url THEN CliEnds("thrown", "invalid-url")
       ELSE CliGoes("args")
  /\ UNCHANGED <<tempDir, cliOpts, cliData, cliEntry, cliArgs, cliStatus, cliIo>>

\* validateOutputPath on options.output / options.audioOutput
CliValidate(pathsOk) ==
  /\ CliFrame
  /\ cliPc = "args"
  /\ ~pathsOk => (cliOpts.output \/ cliOpts.keepAudio)
  /\ IF pathsOk THEN CliGoes("status") ELSE CliEnds("thrown", "invalid-path")
  /\ UNCHANGED <<tempDir, cliOpts, cliData, cliEntry, cliArgs, cliStatus, cliIo>>

\* What the mutation of the status checks does: deno is not looked at.
StatusErrorYtOnly(status) ==
  IF ~status.ytdlp THEN "ytdlp-not-found" ELSE "none"

\* The checks on `status` after `await binaryManager.checkBinaryStatus()`.
StatusError(status) ==
  IF ~status.ytdlp THEN "ytdlp-not-found"
  ELSE IF ~status.deno THEN "deno-not-found"
  ELSE "none"

\* after `await binaryManager.checkBinaryStatus()`: yt-dlp, deno, model name.
\* status.x stands for status.x.exists && status.x.executable.
CliStatus(status) ==
  /\ CliFrame
  /\ cliPc = "status"
  /\ cliStatus' = [checked |-> TRUE, ytdlp |-> status.ytdlp, deno |-> status.deno]
  /\ cliIo' = cliIo \cup {"status"}
  /\ IF StatusError(status) # "none" THEN CliEnds("thrown", StatusError(status))
     ELSE IF ~cliArgs.model THEN CliEnds("thrown", "invalid-model")
     ELSE CliGoes("whisper")
  /\ UNCHANGED <<tempDir, cliOpts, cliData, cliEntry, cliArgs>>

\* after `await binaryManager.ensureWhisperReady(options.model)`: whatever
\* Error it rejected with is rethrown as a CliError with BinaryNotFound.
CliWhisper(result) ==
  /\ CliFrame
  /\ cliPc = "whisper"
  /\ cliIo' = cliIo \cup {"ensure"}
  /\ IF result = "ok" THEN CliGoes("preview") ELSE CliEnds("thrown", result)
  /\ UNCHANGED <<tempDir, cliOpts, cliData, cliEntry, cliArgs, cliStatus>>

\* after `await getVideoPreview(...)`, whose failure is only warned about:
\* the temp directory is made, a Downloader is created with a 'progress'
\* listener only, and download() spawns yt-dlp.
CliPreview(mkOk) ==
  /\ CliFrame
  /\ cliPc = "preview"
  /\ IF mkOk
     THEN /\ CliGoes("download")
          /\ tempDir' = "present"
          /\ cliIo' = cliIo \cup {"preview", "tempdir", "spawn"}
     ELSE /\ CliEnds("thrown", "mkdtemp")
          /\ cliIo' = cliIo \cup {"preview"}
          /\ UNCHANGED tempDir
  /\ UNCHANGED <<cliOpts, cliData, cliEntry, cliArgs, cliStatus>>

\* Downloader's stderr 'data' handler: a chunk with 'ERROR' is emitted as
\* an 'error' event.
CliDlStderr(hasError) ==
  /\ CliFrame
  /\ cliPc = "download"
  /\ cliData < MaxCliData
  /\ IF hasError THEN Uncaught("dl-stderr") /\ UNCHANGED cliData
     ELSE cliData' = cliData + 1 /\ UNCHANGED <<cliPc, cliEnd, cliErr, cliExit, tempDir>>
  /\ UNCHANGED <<cliOpts, cliEntry, cliArgs, cliStatus, cliIo>>

\* Downloader's 'error' handler (yt-dlp could not be spawned).
CliDlSpawnError ==
  /\ CliFrame
  /\ cliPc = "download"
  /\ cliData = 0
  /\ Uncaught("dl-spawn")
  /\ UNCHANGED <<cliOpts, cliData, cliEntry, cliArgs, cliStatus, cliIo>>

\* Downloader's 'close' handler.  Code 0 resolves download(); the command
\* creates a Transcriber with a 'progress' listener only and calls
\* transcribe(), which throws at once when the audio file does not exist.
\* Any other code emits 'error'.
CliDlClose(codeZero, audioExists) ==
  /\ CliFrame
  /\ cliPc = "download"
  /\ IF ~codeZero THEN Uncaught("dl-exit")
     ELSE IF ~audioExists THEN Finally("thrown", "no-audio")
     ELSE CliGoes("transcribe") /\ UNCHANGED tempDir
  /\ UNCHANGED <<cliOpts, cliData, cliEntry, cliArgs, cliStatus, cliIo>>

\* Transcriber's stdout/stderr 'data' handlers.
CliTrData ==
  /\ CliFrame
  /\ cliPc = "transcribe"
  /\ cliData < MaxCliData
  /\ cliData' = cliData + 1
  /\ UNCHANGED <<cliPc, cliEnd, cliErr, cliExit, tempDir, cliOpts, cliEntry, cliArgs,
                 cliStatus, cliIo>>

\* Results of transcribe() that reject without emitting 'error', and those
\* whose handler emits 'error' before it rejects.
RejectsOnly == {"convert", "no-binary", "no-model"}
EmitsError == {"exit", "no-output", "spawn"}

\* transcribe() settles; on success the transcript is read, written and
\* the audio copied, all synchronously, any of which may throw.
CliTrSettles(result, io) ==
  /\ CliFrame
  /\ cliPc = "transcribe"
  /\ io = "write" => cliOpts.output
  /\ io = "copy" => cliOpts.keepAudio
  /\ result # "ok" => io = "none"
  /\ IF result \in EmitsError THEN Uncaught(result)
     ELSE IF result \in RejectsOnly THEN Finally("thrown", result)
     ELSE Finally(IF io = "none" THEN "returned" ELSE "thrown", io)
  /\ UNCHANGED <<cliOpts, cliData, cliEntry, cliArgs, cliStatus, cliIo>>

NextCli ==
  \/ \E known \in BOOLEAN : Main(known)
  \/ \E ok \in BOOLEAN : CliValidate(ok)
  \/ \E status \in [ytdlp : BOOLEAN, deno : BOOLEAN] : CliStatus(status)
  \/ \E result \in {"ok", "whisper-not-found", "model-network"} : CliWhisper(result)
  \/ \E mkOk \in BOOLEAN : CliPreview(mkOk)
  \/ \E hasError \in BOOLEAN : CliDlStderr(hasError)
  \/ CliDlSpawnError
  \/ \E codeZero \in BOOLEAN, audioExists \in BOOLEAN : CliDlClose(codeZero, audioExists)
  \/ CliTrData
  \/ \E result \in {"ok"} \cup RejectsOnly \cup EmitsError,
        io \in {"none", "read", "write", "copy"} : CliTrSettles(result, io)


\* ========================================= BinaryManager.ensureWhisperReady
InitEw ==
  /\ ewPlatform \in {"win32", "darwin", "linux"}
  /\ ewBinary \in BOOLEAN
  /\ ewModelUrl \in {"https", "undefined"}
  /\ ewModelFile \in BOOLEAN
  /\ ewPc = "idle"
  /\ ewCalls = 0
  /\ ewRequests = 0
  /\ ewOut = "none"

EwQuiet ==
  InitEw /\ ewPlatform = "linux" /\ ewBinary /\ ewModelUrl = "https" /\ ewModelFile

\* How a download inside ensureWhisperReady can end.
DownloadResults == {"ok", "network", "http", "incomplete"}

\* The model part of ensureWhisperReady, reached once the binary exists:
\* checkWhisperModelStatus(modelName).ready is fs.existsSync(modelPath);
\* when it is false downloadWhisperModel(modelName) is called, which throws
\* for a name without URL and otherwise issues its request.
ModelPart ==
  IF ewModelFile THEN
    /\ ewPc' = "done"
    /\ ewOut' = "ok"
    /\ UNCHANGED ewRequests
  ELSE IF Falsy(ewModelUrl) THEN
    /\ ewPc' = "done"
    /\ ewOut' = "unknown-model"
    /\ UNCHANGED ewRequests
  ELSE
    /\ ewPc' = "model"
    /\ ewRequests' = ewRequests + 1
    /\ ewOut' = "none"

\* ensureWhisperReady(modelName), up to its first await on a download.
EnsureWhisperReady ==
  /\ EwFrame
  /\ ewPc \in {"idle", "done"}
  /\ ewCalls < MaxEnsureCalls
  /\ ewCalls' = ewCalls + 1
  /\ IF ewBinary THEN ModelPart
     ELSE IF ewPlatform = "win32" THEN
       /\ ewPc' = "binary"
       /\ ewRequests' = ewRequests + 1
       /\ ewOut' = "none"
     ELSE
       /\ ewPc' = "done"
       /\ ewOut' = "binary-not-found"
       /\ UNCHANGED ewRequests
  /\ UNCHANGED <<ewPlatform, ewBinary, ewModelUrl, ewModelFile>>

\* `await this.downloadBinary('whisper')` has settled.
WhisperDownloaded(result) ==
  /\ EwFrame
  /\ ewPc = "binary"
  /\ IF result = "ok"
     THEN ewBinary' = TRUE /\ ModelPart
     ELSE /\ ewPc' = "done"
          /\ ewOut' = result
          /\ UNCHANGED <<ewBinary, ewRequests>>
  /\ UNCHANGED <<ewPlatform, ewModelUrl, ewModelFile, ewCalls>>

\* `await this.downloadWhisperModel(modelName)` has settled.
ModelDownloaded(result) ==
  /\ EwFrame
  /\ ewPc = "model"
  /\ ewPc' = "done"
  /\ ewOut' = result
  /\ ewModelFile' = (result = "ok")
  /\ UNCHANGED <<ewPlatform, ewBinary, ewModelUrl, ewCalls, ewRequests>>

NextEw ==
  \/ EnsureWhisperReady
  \/ \E result \in DownloadResults : WhisperDownloaded(result)
  \/ \E result \in DownloadResults : ModelDownloaded(result)


\* ========================================== BinaryManager.checkBinaryStatus
\* The order in which checkBinaryStatus checks the binaries.
Binaries == <<"yt-dlp", "deno", "whisper", "ffmpeg">>
BinaryNames == {Binaries[i] : i \in DOMAIN Binaries}

NoInfo == [exists |-> FALSE, executable |-> FALSE, version |-> "undefined"]

InitCs ==
  /\ csFiles \in [BinaryNames -> {"missing", "noexec", "exec"}]
  /\ csPc = 0
  /\ csProbing = FALSE
  /\ csInfo = [n \in BinaryNames |-> NoInfo]
  /\ csReady = FALSE

CsQuiet == InitCs /\ csFiles = [n \in BinaryNames |-> "exec"]

\* fs.existsSync(binaryPath)
Exists(file) == file # "missing"

\* (fs.statSync(binaryPath).mode & 0o111) !== 0
HasExecuteBit(file) == file = "exec"

\* What getBinaryVersion resolves with: the first output line, or
\* undefined when there is none, the spawn failed, or the probe was killed
\* by its 5 s timeout.
ProbeResults == {"version", "empty", "error", "timeout"}
VersionOf(result) == IF result = "version" THEN "1.0" ELSE "undefined"

\* Mutant: readiness that also asks for a reported version.
ReadyNeedsVersion(info) ==
  /\ info["yt-dlp"].exists /\ info["yt-dlp"].executable
  /\ info["deno"].exists /\ info["deno"].executable
  /\ info["yt-dlp"].version # "undefined"

\* ready: ytdlpInfo.exists && ytdlpInfo.executable && denoInfo.exists && denoInfo.executable
ReadyOf(info) ==
  /\ info["yt-dlp"].exists /\ info["yt-dlp"].executable
  /\ info["deno"].exists /\ info["deno"].executable

\* checkBinary returns `info` for the binary at csPc: the next binary is
\* checked, or the status is returned.
Checked(info) ==
  /\ csInfo' = [csInfo EXCEPT ![Binaries[csPc]] = info]
  /\ csPc' = csPc + 1
  /\ csProbing' = FALSE
  /\ csReady' = IF csPc = Len(Binaries)
                THEN ReadyOf([csInfo EXCEPT ![Binaries[csPc]] = info]) ELSE csReady

\* checkBinaryStatus() is called.
CheckBinaryStatus ==
  /\ CsFrame
  /\ csPc = 0
  /\ csPc' = 1
  /\ UNCHANGED <<csFiles, csProbing, csInfo, csReady>>

\* checkBinary(name, path) up to `await this.getBinaryVersion(...)`, or to
\* its return when the file is missing or has no execute bit.
CheckBinary ==
  /\ CsFrame
  /\ csPc \in DOMAIN Binaries
  /\ ~csProbing
  /\ LET file == csFiles[Binaries[csPc]] IN
       IF Exists(file) /\ HasExecuteBit(file)
       THEN /\ csProbing' = TRUE
            /\ UNCHANGED <<csPc, csInfo, csReady>>
       ELSE Checked([exists |-> Exists(file), executable |-> FALSE,
                     version |-> "undefined"])
  /\ UNCHANGED csFiles

\* The version probe has settled: checkBinary returns.
ProbeSettles(result) ==
  /\ CsFrame
  /\ csPc \in DOMAIN Binaries
  /\ csProbing
  /\ Checked([exists |-> TRUE, executable |-> TRUE, version |-> VersionOf(result)])
  /\ UNCHANGED csFiles

NextCs ==
  \/ CheckBinaryStatus
  \/ CheckBinary
  \/ \E result \in ProbeResults : ProbeSettles(result)

\* ================================= ProgressReporter, transcribeCommand output
InitRp ==
  /\ rpOpts \in [quiet : BOOLEAN, json : BOOLEAN, verbose : BOOLEAN,
                 output : BOOLEAN, stdout : BOOLEAN]
  /\ rpTty \in BOOLEAN
  /\ rpTranscript \in {"bare", "newline"}
  /\ rp = [err |-> <<>>, out |-> <<>>, shown |-> FALSE]
  /\ rpCalls = 0
  /\ rpDone = FALSE

RpQuiet ==
  /\ InitRp
  /\ rpOpts = [quiet |-> FALSE, json |-> FALSE, verbose |-> FALSE,
               output |-> FALSE, stdout |-> FALSE]
  /\ rpTty = FALSE
  /\ rpTranscript = "newline"

\* private writeStderr(message)
WriteStderr(r, message) == [r EXCEPT !.err = Append(@, message)]

\* private writeJson(data): one JSON line on stderr
WriteJson(r, type) == [r EXCEPT !.err = Append(@, "json " \o type)]

\* private clearLine()
ClearLine(r, tty) ==
  IF tty /\ r.shown THEN [r EXCEPT !.err = Append(@, "clear"), !.shown = FALSE] ELSE r

\* private writeInPlace(line)
WriteInPlace(r, tty) ==
  IF tty THEN [ClearLine(r, tty) EXCEPT !.err = Append(@, "line"), !.shown = TRUE] ELSE r

\* phase(message) and complete(message)
Headline(r, o, tty, type) ==
  IF o.quiet THEN r
  ELSE IF o.json THEN WriteJson(r, type)
  ELSE WriteStderr(ClearLine(r, tty), type)

\* downloadProgress, transcriptionProgress, binaryProgress
Progress(r, o, tty, type) ==
  IF o.quiet THEN r
  ELSE IF o.json THEN WriteJson(r, type)
  ELSE WriteInPlace(r, tty)

\* info(message)
Info(r, o) ==
  IF o.quiet THEN r
  ELSE IF o.json THEN WriteJson(r, "info")
  ELSE WriteStderr(r, "info")

\* warn(message)
Warn(r, o) ==
  IF o.json THEN WriteJson(r, "warning") ELSE WriteStderr(r, "warning")

\* debug(message)
Debug(r, o) ==
  IF ~o.verbose THEN r
  ELSE IF o.json THEN WriteJson(r, "debug")
  ELSE WriteStderr(r, "debug")

HeadlineCalls == {"phase", "complete"}
ProgressCalls == {"download_progress", "transcription_progress", "binary_progress"}
ReporterCalls == HeadlineCalls \cup ProgressCalls \cup {"info", "warning", "debug"}

\* One call of a method of the reporter.
Report(call) ==
  /\ RpFrame
  /\ rpCalls < MaxReports
  /\ rpCalls' = rpCalls + 1
  /\ rp' = CASE call \in HeadlineCalls -> Headline(rp, rpOpts, rpTty, call)
             [] call \in ProgressCalls -> Progress(rp, rpOpts, rpTty, call)
             [] call = "info" -> Info(rp, rpOpts)
             [] call = "warning" -> Warn(rp, rpOpts)
             [] call = "debug" -> Debug(rp, rpOpts)
  /\ UNCHANGED <<rpOpts, rpTty, rpTranscript, rpDone>>

\* What the mutation of the stdout condition does: the transcript always
\* goes to stdout.
ToStdoutAlways(o) == TRUE

\* `if (!options.output || options.stdout)`
ToStdout(o) == ~o.output \/ o.stdout

\* process.stdout.write(transcript), and '\n' unless it ends with one
WriteTranscript(r, transcript) ==
  [r EXCEPT !.out = IF transcript = "newline" THEN Append(@, "transcript")
                    ELSE Append(Append(@, "transcript"), "\n")]

\* transcribeCommand from `if (options.output)` to the end of the stdout
\* block: the file is written and reported, then the transcript is printed.
WriteOutput ==
  /\ RpFrame
  /\ ~rpDone
  /\ rpDone' = TRUE
  /\ LET saved == IF rpOpts.output THEN Headline(rp, rpOpts, rpTty, "complete") ELSE rp
         lined == IF ~rpOpts.quiet /\ ~rpOpts.json THEN WriteStderr(saved, "\n") ELSE saved
     IN rp' = IF ToStdout(rpOpts) THEN WriteTranscript(lined, rpTranscript) ELSE saved
  /\ UNCHANGED <<rpOpts, rpTty, rpTranscript, rpCalls>>

NextRp ==
  \/ \E call \in ReporterCalls : Report(call)
  \/ WriteOutput

\* ========================================== Downloader: stdout 'data' handler
\* A line of the --progress-template: five fields separated by '|'.  The
\* fields of the i-th line are written with the i-th letter.
Letters == <<"a", "b", "c">>
ProgressLine(i) ==
  <<Letters[i], "|", Letters[i], "|", Letters[i], "|", Letters[i], "|", Letters[i], "\n">>

\* Any other line yt-dlp prints.
OtherLine(i) == <<Letters[i], "\n">>

RECURSIVE Concat(_)
Concat(lines) == IF lines = <<>> THEN <<>> ELSE Head(lines) \o Concat(Tail(lines))

\* The streams of up to MaxLines lines.
Streams ==
  { Concat([i \in 1..n |-> IF i \in ps THEN ProgressLine(i) ELSE OtherLine(i)]) :
      n \in 1..MaxLines, ps \in SUBSET (1..MaxLines) }

InitPg ==
  /\ pgStream \in Streams
  /\ pgSent = 0
  /\ pgEvents = <<>>

PgQuiet ==
  /\ pgStream = OtherLine(1)
  /\ pgSent = 0
  /\ pgEvents = <<>>

\* String.prototype.split(sep): the pieces between the separators.
RECURSIVE SplitOn(_, _)
SplitOn(s, sep) ==
  IF \A k \in 1..Len(s) : s[k] # sep THEN <<s>>
  ELSE LET k == CHOOSE j \in 1..Len(s) : s[j] = sep /\ \A h \in 1..(j - 1) : s[h] # sep
       IN <<SubSeq(s, 1, k - 1)>> \o SplitOn(SubSeq(s, k + 1, Len(s)), sep)

\* The body of the loop over the lines of one chunk: the 'progress' events
\* it emits.
EmittedFor(line) ==
  IF (\E k \in 1..Len(line) : line[k] = "|") /\ Len(SplitOn(line, "|")) >= 5
  THEN <<SplitOn(line, "|")>>
  ELSE <<>>

RECURSIVE EmittedForAll(_)
EmittedForAll(lines) ==
  IF lines = <<>> THEN <<>> ELSE EmittedFor(Head(lines)) \o EmittedForAll(Tail(lines))

\* this.process.stdout.on('data', ...): the chunk is split at '\n' and every
\* piece is looked at on its own.
StdoutData(n) ==
  /\ PgFrame
  /\ pgSent + n <= Len(pgStream)
  /\ pgSent' = pgSent + n
  /\ pgEvents' = pgEvents \o
       EmittedForAll(SplitOn(SubSeq(pgStream, pgSent + 1, pgSent + n), "\n"))
  /\ UNCHANGED pgStream

NextPg == \E n \in 1..MaxChunk : StdoutData(n)

\* ================================================================= parseSpeed
\* Numbers are kept as [nan, tenths, times]: tenths/10 multiplied by times.
Zero == [nan |-> FALSE, tenths |-> 0, times |-> 1]
NaN == [nan |-> TRUE, tenths |-> 0, times |-> 1]
NotCalled == [nan |-> TRUE, tenths |-> 0, times |-> 0]

\* value * factor
Times(value, factor) == IF value.nan THEN NaN ELSE [value EXCEPT !.times = @ * factor]

Digits == {"0", "1", "2", "3", "4", "5", "6", "7", "8", "9"}
DigitValue(c) ==
  CASE c = "0" -> 0 [] c = "1" -> 1 [] c = "2" -> 2 [] c = "3" -> 3 [] c = "4" -> 4
    [] c = "5" -> 5 [] c = "6" -> 6 [] c = "7" -> 7 [] c = "8" -> 8 [] c = "9" -> 9

\* The arguments: a number part, white space, a unit and a rate suffix.
NumberParts == {<<>>, <<"1">>, <<"1", "5">>, <<"1", ".", "5">>, <<".">>,
                <<"1", ".", "5", ".", "1">>}
SpaceParts == {<<>>, <<" ">>}
PrefixParts == {<<>>, <<"K">>, <<"M">>, <<"G">>, <<"k">>, <<"m">>, <<"g">>, <<"X">>}
BinaryParts == {<<>>, <<"i">>, <<"I">>}
ByteParts == {<<>>, <<"B">>, <<"b">>}
SuffixParts == {<<>>, <<"/">>, <<"/", "s">>, <<"/", "S">>}

InitSp ==
  /\ spIn \in [num : NumberParts, sp : SpaceParts, prefix : PrefixParts,
               binary : BinaryParts, byte : ByteParts, suffix : SuffixParts,
               padded : BOOLEAN]
  /\ spOut = NotCalled

SpQuiet ==
  /\ spIn = [num |-> <<>>, sp |-> <<>>, prefix |-> <<>>, binary |-> <<>>,
             byte |-> <<>>, suffix |-> <<>>, padded |-> FALSE]
  /\ spOut = NotCalled

\* The string passed to parseSpeed.
SpeedString(in) ==
  LET s == in.num \o in.sp \o in.prefix \o in.binary \o in.byte \o in.suffix
  IN IF in.padded THEN <<" ">> \o s \o <<" ">> ELSE s

\* String.prototype.toUpperCase, on the letters that occur
ToUpperCase(s) ==
  [k \in 1..Len(s) |->
     CASE s[k] = "k" -> "K" [] s[k] = "m" -> "M" [] s[k] = "g" -> "G"
       [] s[k] = "i" -> "I" [] s[k] = "b" -> "B" [] s[k] = "s" -> "S"
       [] OTHER -> s[k]]

\* String.prototype.trim
RECURSIVE TrimStart(_)
TrimStart(s) == IF s # <<>> /\ Head(s) = " " THEN TrimStart(Tail(s)) ELSE s
RECURSIVE TrimEnd(_)
TrimEnd(s) ==
  IF s # <<>> /\ s[Len(s)] = " " THEN TrimEnd(SubSeq(s, 1, Len(s) - 1)) ELSE s
Trim(s) == TrimEnd(TrimStart(s))

\* The length of the longest prefix of s made of characters of cs.
RECURSIVE Span(_, _)
Span(s, cs) == IF s # <<>> /\ Head(s) \in cs THEN 1 + Span(Tail(s), cs) ELSE 0

Drop(s, n) == SubSeq(s, n + 1, Len(s))

\* cleaned.match(/^([\d.]+)\s*(K|M|G)?(I)?B\/S$/): the groups, or no match.
NoMatch == [ok |-> FALSE, number |-> <<>>, prefix |-> "", binary |-> FALSE]
Match(cleaned) ==
  LET n == Span(cleaned, Digits \cup {"."})
      afterNum == Drop(cleaned, n)
      afterSp == Drop(afterNum, Span(afterNum, {" "}))
      hasPrefix == afterSp # <<>> /\ Head(afterSp) \in {"K", "M", "G"}
      afterPrefix == IF hasPrefix THEN Tail(afterSp) ELSE afterSp
      hasI == afterPrefix # <<>> /\ Head(afterPrefix) = "I"
      afterI == IF hasI THEN Tail(afterPrefix) ELSE afterPrefix
  IN IF n > 0 /\ afterI = <<"B", "/", "S">>
     THEN [ok |-> TRUE, number |-> SubSeq(cleaned, 1, n),
           prefix |-> IF hasPrefix THEN Head(afterSp) ELSE "", binary |-> hasI]
     ELSE NoMatch

RECURSIVE Decimal(_, _)
Decimal(s, acc) == IF s = <<>> THEN acc ELSE Decimal(Tail(s), 10 * acc + DigitValue(Head(s)))

\* parseFloat on a string of digits and dots: the longest prefix that is a
\* number, NaN when there is none.  One digit of the fraction is kept.
ParseFloat(s) ==
  LET i == Span(s, Digits)
      rest == Drop(s, i)
      f == IF rest # <<>> /\ Head(rest) = "." THEN Span(Tail(rest), Digits) ELSE 0
      whole == Decimal(SubSeq(s, 1, i), 0)
      tenth == IF f > 0 THEN DigitValue(rest[2]) ELSE 0
  IN IF i = 0 /\ f = 0 THEN NaN
     ELSE [nan |-> FALSE, tenths |-> 10 * whole + tenth, times |-> 1]

\* parseSpeed(speed)
ParseSpeed(speed) ==
  IF speed = <<>> THEN Zero
  ELSE LET match == Match(ToUpperCase(Trim(speed)))
           value == ParseFloat(match.number)
           base == IF match.binary THEN 1024 ELSE 1000
       IN IF ~match.ok THEN Zero
          ELSE CASE match.prefix = "G" -> Times(Times(Times(value, base), base), base)
                 [] match.prefix = "M" -> Times(Times(value, base), base)
                 [] match.prefix = "K" -> Times(value, base)
                 [] OTHER -> value

\* A call of parseSpeed with the string.
CallParseSpeed ==
  /\ SpFrame
  /\ spOut = NotCalled
  /\ spOut' = ParseSpeed(SpeedString(spIn))
  /\ UNCHANGED spIn

NextSp == CallParseSpeed

\* ============================================== extractVideoId (renderer)
\* A URL is kept as the sequence of its pieces: scheme, host, path, and the
\* names and values of the query.  VideoIds are the values [\w-]{11} matches.
VideoIds == {"jNQXAC9IVRw"}
OtherValues == {"120"}
ParamNames == {"v=", "t=", "list="}

Params == [name : ParamNames, value : VideoIds \cup OtherValues]
Queries == UNION { [1..n -> Params] : n \in 0..MaxParams }

InitEv ==
  /\ evIn \in [scheme : {"", "https://"},
               host : {"youtube.com/", "youtu.be/", "vimeo.com/"},
               path : {"", "watch?", "embed/", "v/", "shorts/"},
               segment : {""} \cup VideoIds \cup OtherValues,
               query : Queries,
               padded : BOOLEAN]
  /\ evIn.path = "watch?" => evIn.segment = ""
  /\ evIn.path # "watch?" => evIn.query = <<>>
  /\ evOut = "not-called"

EvQuiet ==
  /\ evIn = [scheme |-> "", host |-> "vimeo.com/", path |-> "", segment |-> "",
             query |-> <<>>, padded |-> FALSE]
  /\ evOut = "not-called"

\* name=value&name=value...
RECURSIVE QueryString(_)
QueryString(q) ==
  IF q = <<>> THEN <<>>
  ELSE <<Head(q).name, Head(q).value>> \o
       (IF Tail(q) = <<>> THEN <<>> ELSE <<"&">> \o QueryString(Tail(q)))

\* The string passed to extractVideoId.
UrlString(in) ==
  LET s == SelectSeq(<<in.scheme, in.host, in.path, in.segment>>, LAMBDA p : p # "")
           \o QueryString(in.query)
  IN IF in.padded THEN <<" ">> \o s \o <<" ">> ELSE s

\* trimmed.match(/<pieces>([\w-]{11})/): the group of the first match, or
\* "null".
Capture(s, pieces) ==
  LET n == Len(pieces)
      hits == { k \in 1..(Len(s) - n) :
                  SubSeq(s, k, k + n - 1) = pieces /\ s[k + n] \in VideoIds }
  IN IF hits = {} THEN "null"
     ELSE s[(CHOOSE k \in hits : \A h \in hits : k <= h) + Len(pieces)]

\* The patterns extractVideoId tries, in its order.
Patterns ==
  << <<"youtu.be/">>,
     <<"youtube.com/", "watch?", "v=">>,
     <<"youtube.com/", "embed/">>,
     <<"youtube.com/", "v/">>,
     <<"youtube.com/", "shorts/">> >>

RECURSIVE FirstCapture(_, _)
FirstCapture(s, patterns) ==
  IF patterns = <<>> THEN "null"
  ELSE IF Capture(s, Head(patterns)) # "null" THEN Capture(s, Head(patterns))
  ELSE FirstCapture(s, Tail(patterns))

\* extractVideoId(url)
ExtractVideoId(url) == FirstCapture(Trim(url), Patterns)

\* A call of extractVideoId with the URL.
CallExtractVideoId ==
  /\ EvFrame
  /\ evOut = "not-called"
  /\ evOut' = ExtractVideoId(UrlString(evIn))
  /\ UNCHANGED evIn

NextEv == CallExtractVideoId

\* ===================== isPathWithinAllowed, ytdlp:openFolder / ytdlp:openFile
\* Paths are POSIX paths.  A segment is a name, "." or ".."; a name is written
\* with the letters a and b.
Names == {<<"a">>, <<"a", "b">>, <<"b">>}
Segments == Names \cup {<<".">>, <<".", ".">>}

\* process.cwd()
Cwd == <<<<"b">>>>

SegmentLists(S, n) == UNION { [1..k -> S] : k \in 0..n }

InitIp ==
  /\ ipPath \in [segments : SegmentLists(Segments, MaxDepth), relative : BOOLEAN]
  /\ ipBases \in (SUBSET SegmentLists(Names, MaxBaseDepth)) \ {{}}
  /\ Cardinality(ipBases) <= MaxBases
  /\ ipAnswer = "none"

IpQuiet ==
  /\ ipPath = [segments |-> <<>>, relative |-> FALSE]
  /\ ipBases = {<<<<"a">>>>}
  /\ ipAnswer = "none"

\* path.resolve followed by path.normalize: "." is dropped, ".." drops the
\* segment before it and is dropped itself at the root.
RECURSIVE Normalized(_, _)
Normalized(done, rest) ==
  IF rest = <<>> THEN done
  ELSE IF Head(rest) = <<".">> THEN Normalized(done, Tail(rest))
  ELSE IF Head(rest) = <<".", ".">>
    THEN Normalized(IF done = <<>> THEN done ELSE SubSeq(done, 1, Len(done) - 1), Tail(rest))
  ELSE Normalized(Append(done, Head(rest)), Tail(rest))

Resolve(p) == Normalized(<<>>, IF p.relative THEN Cwd \o p.segments ELSE p.segments)

\* The string of a normalized absolute path: "/" for the root, else every
\* segment preceded by path.sep.
RECURSIVE Joined(_)
Joined(segs) == IF segs = <<>> THEN <<>> ELSE <<"/">> \o Head(segs) \o Joined(Tail(segs))
PathString(segs) == IF segs = <<>> THEN <<"/">> ELSE Joined(segs)

\* String.prototype.startsWith
StartsWith(s, prefix) == Len(prefix) <= Len(s) /\ SubSeq(s, 1, Len(prefix)) = prefix

\* The callback of allowedBasePaths.some(...)
WithinBase(normalizedPath, normalizedBase) ==
  StartsWith(normalizedPath, normalizedBase \o <<"/">>) \/ normalizedPath = normalizedBase

\* isPathWithinAllowed(filePath, allowedBasePaths)
IsPathWithinAllowed(p, bases) ==
  \E base \in bases :
    WithinBase(PathString(Resolve(p)),
               PathString(Resolve([segments |-> base, relative |-> FALSE])))

\* ipcMain.handle('ytdlp:openFolder' / 'ytdlp:openFile'): the path is opened
\* with shell.openPath when isPathWithinAllowed accepts it.
OpenPath ==
  /\ IpFrame
  /\ ipAnswer = "none"
  /\ ipAnswer' = IF IsPathWithinAllowed(ipPath, ipBases) THEN "opened" ELSE "blocked"
  /\ UNCHANGED <<ipPath, ipBases>>

NextIp == OpenPath

\* ================================= registerDownloadIPC: ytdlp:download,
\* ================================= ytdlp:pause, ytdlp:resume, ytdlp:cancel
Ids == 1..MaxIds
Starts == 1..MaxStarts

\* The Downloader of a request that was not made yet: `process` tells
\* whether Downloader.process is set.
NoDownload ==
  [id |-> 0, os |-> "none", process |-> FALSE, isPaused |-> FALSE,
   term |-> FALSE, code |-> "none", closeSeen |-> FALSE, errSeen |-> FALSE]

NoAnswer == [op |-> "none", id |-> 0, success |-> FALSE]

InitAd ==
  /\ activeDownloads = [id \in Ids |-> 0]
  /\ adDl = [n \in Starts |-> NoDownload]
  /\ adStarted = 0
  /\ adAnswer = NoAnswer
  /\ adRequests = 0
  /\ adData = 0

AdQuiet == InitAd

\* A failed spawn emits 'error' through process.nextTick, before any other
\* callback runs.
AdReady == ~\E n \in Starts : adDl[n].os = "nospawn" /\ ~adDl[n].errSeen

\* activeDownloads.delete(downloadId): by key, whichever Downloader the
\* entry holds.
Delete(id) == [activeDownloads EXCEPT ![id] = 0]

\* ytdlp:download: a new Downloader is registered under the id, the
\* listeners are attached, and download() spawns the child.
IpcDownload(id, spawnOk) ==
  /\ AdReady
  /\ AdFrame
  /\ adStarted < MaxStarts
  /\ adStarted' = adStarted + 1
  /\ activeDownloads' = [activeDownloads EXCEPT ![id] = adStarted + 1]
  /\ adDl' = [adDl EXCEPT ![adStarted + 1] =
       [NoDownload EXCEPT !.id = id, !.process = TRUE,
                          !.os = IF spawnOk THEN "running" ELSE "nospawn"]]
  /\ UNCHANGED <<adAnswer, adRequests, adData>>

\* Downloader.pause(), resume() and cancel() on the Downloader d.
DlPause(d) ==
  IF d.process /\ ~d.isPaused THEN [Deliver(d, "SIGSTOP") EXCEPT !.isPaused = TRUE] ELSE d
DlResume(d) ==
  IF d.process /\ d.isPaused THEN [Deliver(d, "SIGCONT") EXCEPT !.isPaused = FALSE] ELSE d
DlCancel(d) ==
  IF d.process
  THEN [Deliver(d, "SIGTERM") EXCEPT !.process = FALSE, !.isPaused = FALSE]
  ELSE d

\* ytdlp:pause and ytdlp:resume: the 'paused' and 'resumed' listeners only
\* forward the event.
IpcPause(id) ==
  /\ AdReady
  /\ AdFrame
  /\ adRequests < MaxRequests
  /\ adRequests' = adRequests + 1
  /\ adAnswer' = [op |-> "pause", id |-> id, success |-> activeDownloads[id] # 0]
  /\ adDl' = IF activeDownloads[id] # 0
             THEN [adDl EXCEPT ![activeDownloads[id]] = DlPause(@)] ELSE adDl
  /\ UNCHANGED <<activeDownloads, adStarted, adData>>

IpcResume(id) ==
  /\ AdReady
  /\ AdFrame
  /\ adRequests < MaxRequests
  /\ adRequests' = adRequests + 1
  /\ adAnswer' = [op |-> "resume", id |-> id, success |-> activeDownloads[id] # 0]
  /\ adDl' = IF activeDownloads[id] # 0
             THEN [adDl EXCEPT ![activeDownloads[id]] = DlResume(@)] ELSE adDl
  /\ UNCHANGED <<activeDownloads, adStarted, adData>>

\* ytdlp:cancel: cancel() emits 'cancelled' only when a child is attached,
\* and the 'cancelled' listener deletes the entry.
IpcCancel(id) ==
  /\ AdReady
  /\ AdFrame
  /\ adRequests < MaxRequests
  /\ adRequests' = adRequests + 1
  /\ adAnswer' = [op |-> "cancel", id |-> id, success |-> activeDownloads[id] # 0]
  /\ IF activeDownloads[id] # 0
     THEN /\ adDl' = [adDl EXCEPT ![activeDownloads[id]] = DlCancel(@)]
          /\ activeDownloads' =
               IF adDl[activeDownloads[id]].process THEN Delete(id) ELSE activeDownloads
     ELSE UNCHANGED <<adDl, activeDownloads>>
  /\ UNCHANGED <<adStarted, adData>>

\* The child ends on its own, or by a pending SIGTERM once it runs.
AdChildExits(n, code) ==
  /\ AdReady
  /\ AdFrame
  /\ adDl[n].os = "running"
  /\ code = "signal" => adDl[n].term
  /\ adDl' = [adDl EXCEPT ![n].os = "dead", ![n].code = code]
  /\ UNCHANGED <<activeDownloads, adStarted, adAnswer, adRequests, adData>>

\* stderr 'data' handler: a chunk containing 'ERROR' is emitted as 'error',
\* and the 'error' listener deletes the entry of the id.
AdStderr(n, hasError) ==
  /\ AdReady
  /\ AdFrame
  /\ adDl[n].os \in {"running", "stopped", "dead"}
  /\ ~adDl[n].closeSeen
  /\ adData < MaxData
  /\ adData' = adData + 1
  /\ activeDownloads' = IF hasError THEN Delete(adDl[n].id) ELSE activeDownloads
  /\ UNCHANGED <<adDl, adStarted, adAnswer, adRequests>>

\* 'close' handler: detaches, then emits 'complete' or 'error'; the
\* listener of either deletes the entry of the id.
AdClose(n) ==
  /\ AdReady
  /\ AdFrame
  /\ ~adDl[n].closeSeen
  /\ adDl[n].os = "dead" \/ (adDl[n].os = "nospawn" /\ adDl[n].errSeen)
  /\ adDl' = [adDl EXCEPT ![n].closeSeen = TRUE, ![n].process = FALSE]
  /\ activeDownloads' = Delete(adDl[n].id)
  /\ UNCHANGED <<adStarted, adAnswer, adRequests, adData>>

\* 'error' handler (the spawn failed): detaches and emits 'error'.
AdError(n) ==
  /\ AdFrame
  /\ adDl[n].os = "nospawn"
  /\ ~adDl[n].errSeen
  /\ adDl' = [adDl EXCEPT ![n].errSeen = TRUE, ![n].process = FALSE]
  /\ activeDownloads' = Delete(adDl[n].id)
  /\ UNCHANGED <<adStarted, adAnswer, adRequests, adData>>

\* cleanupDownloadsForWindow, for the window every download of the run
\* belongs to: each registered Downloader is cancelled and its entry deleted.
CleanupDownloadsForWindow ==
  /\ AdReady
  /\ AdFrame
  /\ \E id \in Ids : activeDownloads[id] # 0
  /\ adDl' = [n \in Starts |->
       IF adDl[n].id # 0 /\ activeDownloads[adDl[n].id] = n
       THEN DlCancel(adDl[n]) ELSE adDl[n]]
  /\ activeDownloads' = [id \in Ids |-> 0]
  /\ UNCHANGED <<adStarted, adAnswer, adRequests, adData>>

NextAd ==
  \/ CleanupDownloadsForWindow
  \/ \E id \in Ids, ok \in BOOLEAN : IpcDownload(id, ok)
  \/ \E id \in Ids : IpcPause(id)
  \/ \E id \in Ids : IpcResume(id)
  \/ \E id \in Ids : IpcCancel(id)
  \/ \E n \in Starts, code \in {"zero", "nonzero", "signal"} : AdChildExits(n, code)
  \/ \E n \in Starts, hasError \in BOOLEAN : AdStderr(n, hasError)
  \/ \E n \in Starts : AdClose(n)
  \/ \E n \in Starts : AdError(n)

\* ============== the playlist queue: handlePlaylistDownload, useDownloadEvents
Items == 1..MaxItems
Playlists == 1..MaxPlaylists

\* A slot of the list no item was added to yet.  An item filtered out by
\* removeDownload keeps its slot with status "removed".
NoItem == [playlistId |-> 0, status |-> "none"]

InitPl ==
  /\ downloads = [i \in Items |-> NoItem]
  /\ plRunning = [i \in Items |-> FALSE]

PlQuiet == InitPl

\* The items added so far.
Added(ds) == {i \in Items : ds[i].status # "none"}
InList(ds, i) == ds[i].status \notin {"none", "removed"}

\* downloads.find(d => d.playlistId === id && d.status === 'pending'): the
\* first pending item of the playlist in queue order, 0 if there is none.
IsPendingOf(ds, pl, i) == ds[i].playlistId = pl /\ ds[i].status = "pending"
NextPending(ds, pl) ==
  IF \E i \in Items : IsPendingOf(ds, pl, i)
  THEN CHOOSE i \in Items :
         IsPendingOf(ds, pl, i) /\ \A j \in Items : IsPendingOf(ds, pl, j) => i <= j
  ELSE 0

\* setStatus(id, status) / setError(id, error): map over the items, so an
\* item that is not in the list changes nothing.
SetStatus(ds, i, status) ==
  IF InList(ds, i) THEN [ds EXCEPT ![i].status = status] ELSE ds

\* handlePlaylistDownload for playlist pl with n selected videos: all are
\* added as 'pending', the first is set to 'downloading' and started.
HandlePlaylistDownload(pl, n) ==
  /\ PlFrame
  /\ Cardinality(Added(downloads)) + n <= MaxItems
  /\ LET first == Cardinality(Added(downloads)) + 1 IN
       /\ downloads' = [i \in Items |->
            IF i = first THEN [playlistId |-> pl, status |-> "downloading"]
            ELSE IF i > first /\ i < first + n THEN [playlistId |-> pl, status |-> "pending"]
            ELSE downloads[i]]
       /\ plRunning' = [plRunning EXCEPT ![first] = TRUE]

\* onDownloadComplete listener: the item is completed; if it is still in
\* the list, startNextPlaylistDownload sets the next pending item of its
\* playlist to 'downloading' and starts it.
OnDownloadComplete(i) ==
  /\ PlFrame
  /\ plRunning[i]
  /\ IF ~InList(downloads, i)
     THEN /\ downloads' = downloads
          /\ plRunning' = [plRunning EXCEPT ![i] = FALSE]
     ELSE LET ds == SetStatus(downloads, i, "completed")
              next == NextPending(ds, downloads[i].playlistId) IN
            /\ downloads' = IF next # 0 THEN [ds EXCEPT ![next].status = "downloading"] ELSE ds
            /\ plRunning' = [j \in Items |-> IF j = next THEN TRUE
                                             ELSE IF j = i THEN FALSE ELSE plRunning[j]]

\* onDownloadError listener: setError only.  The event comes from the
\* 'close' or 'error' handler (the download has ended) or from a stderr
\* chunk holding 'ERROR' (it has not).
OnDownloadError(i, ended) ==
  /\ PlFrame
  /\ plRunning[i]
  /\ downloads' = SetStatus(downloads, i, "error")
  /\ plRunning' = [plRunning EXCEPT ![i] = ~ended]

\* onDownloadPaused / onDownloadResumed listeners
OnDownloadPaused(i) ==
  /\ PlFrame
  /\ plRunning[i]
  /\ downloads[i].status # "paused"
  /\ downloads' = SetStatus(downloads, i, "paused")
  /\ UNCHANGED plRunning

OnDownloadResumed(i) ==
  /\ PlFrame
  /\ plRunning[i]
  /\ downloads[i].status = "paused"
  /\ downloads' = SetStatus(downloads, i, "downloading")
  /\ UNCHANGED plRunning

\* cancelDownload and the onDownloadCancelled listener: the download is
\* cancelled and the item removed from the list.
OnDownloadCancelled(i) ==
  /\ PlFrame
  /\ plRunning[i]
  /\ downloads' = [downloads EXCEPT ![i].status = "removed"]
  /\ plRunning' = [plRunning EXCEPT ![i] = FALSE]

\* retryDownload: an item in status 'error' is set to 'downloading' and
\* started again.
RetryDownload(i) ==
  /\ PlFrame
  /\ downloads[i].status = "error"
  /\ downloads' = [downloads EXCEPT ![i].status = "downloading"]
  /\ plRunning' = [plRunning EXCEPT ![i] = TRUE]

\* A started download ends: by completion, or by failure.
DownloadEnds(i) == OnDownloadComplete(i) \/ OnDownloadError(i, TRUE)

NextPl ==
  \/ \E pl \in Playlists, n \in Items : HandlePlaylistDownload(pl, n)
  \/ \E i \in Items : OnDownloadComplete(i)
  \/ \E i \in Items, ended \in BOOLEAN : OnDownloadError(i, ended)
  \/ \E i \in Items : OnDownloadPaused(i)
  \/ \E i \in Items : OnDownloadResumed(i)
  \/ \E i \in Items : OnDownloadCancelled(i)
  \/ \E i \in Items : RetryDownload(i)

\* ============== Transcriber: parseProgress and the 'close' handler's progress
\* The parts of an output chunk parseProgress looks at: the number of the
\* first 'progress = N%' match (<<>> if there is none) and the
\* '[hh:mm:ss.mmm -->' matches in order, each as <<hh, mm, ss>>.
Stamps == {<<h, m, sec>> : h \in {0, 1}, m \in {0, 1}, sec \in {0, 30, 59}}
StampLists == UNION {[1..n -> Stamps] : n \in 0..MaxStamps}
Tokens == {<<>>, <<0>>, <<50>>, <<100>>, <<150>>}
Outputs == [token : Tokens, stamps : StampLists]
NoOutput == [token |-> <<>>, stamps |-> <<>>]

\* What getAudioDuration may resolve with.
Durations == {0, 30, 60, 90, 3600}
ExitCodes == {0, 1, 2}

NoCause == [kind |-> "none", output |-> NoOutput, code |-> 0, found |-> FALSE]
Loading == [percent |-> 0, phase |-> "loading", currentTime |-> <<>>]

InitTp ==
  /\ totalDuration = 0
  /\ tpPc = "idle"
  /\ tpProgress = [percent |-> 0, phase |-> "none", currentTime |-> <<>>]
  /\ tpCause = NoCause

TpQuiet == InitTp

\* Math.round(n / d) for n >= 0 and d > 0
Round(n, d) == (2 * n + d) \div (2 * d)

\* hours * 3600 + minutes * 60 + seconds
CurrentSeconds(st) == st[1] * 3600 + st[2] * 60 + st[3]

\* The rounded ratio alone.
TimestampPercentUncapped(cur, d) == Round(cur * 100, d)

\* Math.min(99, Math.round((currentSeconds / this.totalDuration) * 100))
TimestampPercent(cur, d) ==
  IF Round(cur * 100, d) < PercentCap THEN Round(cur * 100, d) ELSE PercentCap

\* parseProgress(output): the event it emits, <<>> if it emits none.
ParseProgress(output) ==
  IF output.token # <<>>
  THEN <<[percent |-> output.token[1], phase |-> "transcribing", currentTime |-> <<>>]>>
  ELSE IF Len(output.stamps) > 0 /\ totalDuration > 0
  THEN LET lastTimestamp == output.stamps[Len(output.stamps)] IN
         <<[percent |-> TimestampPercent(CurrentSeconds(lastTimestamp), totalDuration),
            phase |-> "transcribing", currentTime |-> lastTimestamp]>>
  ELSE <<>>

\* transcribe(options) up to the spawn of the engine: the duration is
\* probed and 'loading' is reported.
TpTranscribe(d) ==
  /\ TpFrame
  /\ tpPc # "running"
  /\ totalDuration' = d
  /\ tpPc' = "running"
  /\ tpProgress' = Loading
  /\ tpCause' = [NoCause EXCEPT !.kind = "start"]

\* stdout / stderr 'data' of the engine; the listeners stay after cancel().
TpData(output) ==
  /\ TpFrame
  /\ tpPc \in {"running", "cancelled"}
  /\ IF ParseProgress(output) # <<>>
     THEN /\ tpProgress' = ParseProgress(output)[1]
          /\ tpCause' = [NoCause EXCEPT !.kind = "data", !.output = output]
     ELSE UNCHANGED <<tpProgress, tpCause>>
  /\ UNCHANGED <<totalDuration, tpPc>>

\* The 'close' handler: percent 100 is reported if the engine exited with
\* code 0 and the output file exists.
TpClose(code, found) ==
  /\ TpFrame
  /\ tpPc \in {"running", "cancelled"}
  /\ tpPc' = "ended"
  /\ IF code = 0 /\ found
     THEN /\ tpProgress' = [percent |-> 100, phase |-> "saving", currentTime |-> <<>>]
          /\ tpCause' = [NoCause EXCEPT !.kind = "close", !.code = code, !.found = found]
     ELSE UNCHANGED <<tpProgress, tpCause>>
  /\ UNCHANGED totalDuration

\* cancel()
TpCancel ==
  /\ TpFrame
  /\ tpPc = "running"
  /\ tpPc' = "cancelled"
  /\ UNCHANGED <<totalDuration, tpProgress, tpCause>>

NextTp ==
  \/ \E d \in Durations : TpTranscribe(d)
  \/ \E output \in Outputs : TpData(output)
  \/ \E code \in ExitCodes, found \in BOOLEAN : TpClose(code, found)
  \/ TpCancel

\* ============== downloadFile: followRedirect
Protocols == {"https", "http"}
Locations == Protocols \cup {"none"}
StatusCodes == {200, 301, 302, 404, 500}

InitRd ==
  /\ rdPc = "idle"
  /\ redirectCount = 0
  /\ rdProtocol = "none"
  /\ resolved = FALSE
  /\ rdError = "none"
  /\ rdRequests = 0
  /\ rdHops = 0
  /\ rdStatus = 0

RdQuiet == InitRd

\* The test that stops the chain.
TooManyLimit(count) == count >= RedirectLimit

\* if (redirectCount > 5)
TooMany(count) == count > RedirectLimit

\* cleanup(err): the first call rejects, later calls do nothing.
RdCleanup(err) ==
  IF resolved
  THEN UNCHANGED <<rdPc, resolved, rdError>>
  ELSE /\ resolved' = TRUE
       /\ rdError' = err
       /\ rdPc' = "failed"

\* followRedirect(currentUrl, redirectCount) up to the protocol.get call.
FollowRedirect(protocol, count) ==
  IF resolved
  THEN UNCHANGED <<rdPc, redirectCount, rdProtocol, resolved, rdError, rdRequests>>
  ELSE IF TooMany(count)
  THEN /\ RdCleanup("too-many")
       /\ UNCHANGED <<redirectCount, rdProtocol, rdRequests>>
  ELSE /\ rdPc' = "request"
       /\ redirectCount' = count
       /\ rdProtocol' = protocol
       /\ rdRequests' = rdRequests + 1
       /\ UNCHANGED <<resolved, rdError>>

\* downloadFile(name, url, destPath): followRedirect(url)
DownloadFile(protocol) ==
  /\ RdFrame
  /\ rdPc = "idle"
  /\ FollowRedirect(protocol, 0)
  /\ UNCHANGED <<rdHops, rdStatus>>

\* The response callback of protocol.get.
RdResponse(status, location) ==
  /\ RdFrame
  /\ rdPc = "request"
  /\ rdStatus' = status
  /\ IF status >= 300 /\ status < 400 /\ location # "none"
     THEN /\ rdHops' = rdHops + 1
          /\ FollowRedirect(location, redirectCount + 1)
     ELSE IF status # 200
     THEN /\ RdCleanup("http")
          /\ UNCHANGED <<redirectCount, rdProtocol, rdRequests, rdHops>>
     ELSE /\ rdPc' = "body"
          /\ UNCHANGED <<redirectCount, rdProtocol, resolved, rdError, rdRequests, rdHops>>

\* req.on('error') / req.on('timeout') of the request in flight
RdRequestError ==
  /\ RdFrame
  /\ rdPc = "request"
  /\ RdCleanup("request")
  /\ UNCHANGED <<redirectCount, rdProtocol, rdRequests, rdHops, rdStatus>>

\* The body: response 'error', or the file's 'finish' and cleanup().
RdBodyEnds(ok) ==
  /\ RdFrame
  /\ rdPc = "body"
  /\ IF ok
     THEN /\ rdPc' = "done"
          /\ resolved' = TRUE
          /\ UNCHANGED rdError
     ELSE RdCleanup("stream")
  /\ UNCHANGED <<redirectCount, rdProtocol, rdRequests, rdHops, rdStatus>>

NextRd ==
  \/ \E protocol \in Protocols : DownloadFile(protocol)
  \/ \E status \in StatusCodes, location \in Locations : RdResponse(status, location)
  \/ RdRequestError
  \/ \E ok \in BOOLEAN : RdBodyEnds(ok)

\* ============================================================ specifications
InitDownloader == InitDl /\ TrQuiet /\ AcQuiet /\ DaQuiet /\ CliQuiet /\ EwQuiet /\ CsQuiet /\ RpQuiet /\ PgQuiet /\ SpQuiet /\ EvQuiet /\ IpQuiet /\ AdQuiet /\ PlQuiet /\ TpQuiet /\ RdQuiet
SpecDownloader == InitDownloader /\ [][NextDl]_vars

InitTranscriber == InitTr /\ DlQuiet /\ AcQuiet /\ DaQuiet /\ CliQuiet /\ EwQuiet /\ CsQuiet /\ RpQuiet /\ PgQuiet /\ SpQuiet /\ EvQuiet /\ IpQuiet /\ AdQuiet /\ PlQuiet /\ TpQuiet /\ RdQuiet
SpecTranscriber == InitTranscriber /\ [][NextTr]_vars

InitAcquire == InitAc /\ DlQuiet /\ TrQuiet /\ DaQuiet /\ CliQuiet /\ EwQuiet /\ CsQuiet /\ RpQuiet /\ PgQuiet /\ SpQuiet /\ EvQuiet /\ IpQuiet /\ AdQuiet /\ PlQuiet /\ TpQuiet /\ RdQuiet
SpecAcquire == InitAcquire /\ [][NextAc]_vars

InitAll == InitDa /\ DlQuiet /\ TrQuiet /\ AcQuiet /\ CliQuiet /\ EwQuiet /\ CsQuiet /\ RpQuiet /\ PgQuiet /\ SpQuiet /\ EvQuiet /\ IpQuiet /\ AdQuiet /\ PlQuiet /\ TpQuiet /\ RdQuiet
SpecAll == InitAll /\ [][NextDa]_vars

InitCommand == InitCli /\ DlQuiet /\ TrQuiet /\ AcQuiet /\ DaQuiet /\ EwQuiet /\ CsQuiet /\ RpQuiet /\ PgQuiet /\ SpQuiet /\ EvQuiet /\ IpQuiet /\ AdQuiet /\ PlQuiet /\ TpQuiet /\ RdQuiet
SpecCli == InitCommand /\ [][NextCli]_vars

InitEnsure == InitEw /\ DlQuiet /\ TrQuiet /\ AcQuiet /\ DaQuiet /\ CliQuiet /\ CsQuiet /\ RpQuiet /\ PgQuiet /\ SpQuiet /\ EvQuiet /\ IpQuiet /\ AdQuiet /\ PlQuiet /\ TpQuiet /\ RdQuiet
SpecEnsure == InitEnsure /\ [][NextEw]_vars

InitStatus == InitCs /\ DlQuiet /\ TrQuiet /\ AcQuiet /\ DaQuiet /\ CliQuiet /\ EwQuiet /\ RpQuiet /\ PgQuiet /\ SpQuiet /\ EvQuiet /\ IpQuiet /\ AdQuiet /\ PlQuiet /\ TpQuiet /\ RdQuiet
SpecStatus == InitStatus /\ [][NextCs]_vars

InitReporter == InitRp /\ DlQuiet /\ TrQuiet /\ AcQuiet /\ DaQuiet /\ CliQuiet /\ EwQuiet /\ CsQuiet /\ PgQuiet /\ SpQuiet /\ EvQuiet /\ IpQuiet /\ AdQuiet /\ PlQuiet /\ TpQuiet /\ RdQuiet
SpecReporter == InitReporter /\ [][NextRp]_vars

InitProgress == InitPg /\ DlQuiet /\ TrQuiet /\ AcQuiet /\ DaQuiet /\ CliQuiet /\ EwQuiet /\ CsQuiet /\ RpQuiet /\ SpQuiet /\ EvQuiet /\ IpQuiet /\ AdQuiet /\ PlQuiet /\ TpQuiet /\ RdQuiet
SpecProgress == InitProgress /\ [][NextPg]_vars

InitSpeed == InitSp /\ DlQuiet /\ TrQuiet /\ AcQuiet /\ DaQuiet /\ CliQuiet /\ EwQuiet /\ CsQuiet /\ RpQuiet /\ PgQuiet /\ EvQuiet /\ IpQuiet /\ AdQuiet /\ PlQuiet /\ TpQuiet /\ RdQuiet
SpecSpeed == InitSpeed /\ [][NextSp]_vars

InitExtract == InitEv /\ DlQuiet /\ TrQuiet /\ AcQuiet /\ DaQuiet /\ CliQuiet /\ EwQuiet /\ CsQuiet /\ RpQuiet /\ PgQuiet /\ SpQuiet /\ IpQuiet /\ AdQuiet /\ PlQuiet /\ TpQuiet /\ RdQuiet
SpecExtract == InitExtract /\ [][NextEv]_vars

InitOpen == InitIp /\ DlQuiet /\ TrQuiet /\ AcQuiet /\ DaQuiet /\ CliQuiet /\ EwQuiet /\ CsQuiet /\ RpQuiet /\ PgQuiet /\ SpQuiet /\ EvQuiet /\ AdQuiet /\ PlQuiet /\ TpQuiet /\ RdQuiet
SpecOpen == InitOpen /\ [][NextIp]_vars

InitRegistry == InitAd /\ DlQuiet /\ TrQuiet /\ AcQuiet /\ DaQuiet /\ CliQuiet /\ EwQuiet /\ CsQuiet /\ RpQuiet /\ PgQuiet /\ SpQuiet /\ EvQuiet /\ IpQuiet /\ PlQuiet /\ TpQuiet /\ RdQuiet
SpecRegistry == InitRegistry /\ [][NextAd]_vars

InitPlaylist == InitPl /\ DlQuiet /\ TrQuiet /\ AcQuiet /\ DaQuiet /\ CliQuiet /\ EwQuiet /\ CsQuiet /\ RpQuiet /\ PgQuiet /\ SpQuiet /\ EvQuiet /\ IpQuiet /\ AdQuiet /\ TpQuiet /\ RdQuiet
SpecPlaylist == InitPlaylist /\ [][NextPl]_vars

InitTimestamps == InitTp /\ DlQuiet /\ TrQuiet /\ AcQuiet /\ DaQuiet /\ CliQuiet /\ EwQuiet /\ CsQuiet /\ RpQuiet /\ PgQuiet /\ SpQuiet /\ EvQuiet /\ IpQuiet /\ AdQuiet /\ PlQuiet /\ RdQuiet
SpecTimestamps == InitTimestamps /\ [][NextTp]_vars

InitRedirect == InitRd /\ DlQuiet /\ TrQuiet /\ AcQuiet /\ DaQuiet /\ CliQuiet /\ EwQuiet /\ CsQuiet /\ RpQuiet /\ PgQuiet /\ SpQuiet /\ EvQuiet /\ IpQuiet /\ AdQuiet /\ PlQuiet /\ TpQuiet
SpecRedirect == InitRedirect /\ [][NextRd]_vars

\* Every started download terminates.
SpecPlaylistFair == SpecPlaylist /\ \A i \in Items : WF_vars(DownloadEnds(i))
\* =================================================== claims on the Downloader
\* What pause(), resume() and cancel() can put on the log.
CallOutputs == {"SIGSTOP", "SIGCONT", "SIGTERM", "paused", "resumed", "cancelled"}

\* C1 (as claimed): download() while a subprocess is attached is rejected:
\* no step taken with a subprocess attached spawns another child.
C1_NoSpawnWhileAttached == [][dlProcess # 0 => dlSpawned' = dlSpawned]_vars

\* C8, state part: a 'cancelled' event of job p follows directly on the
\* SIGTERM sent to p, both occur once, p is detached from then on, and
\* nothing pause(), resume() or cancel() can produce is logged for p later.
C8_CancelledOnce ==
  \A p \in Jobs : \A i \in DOMAIN dlLog[p] :
    dlLog[p][i] = "cancelled" =>
      /\ i > 1
      /\ dlLog[p][i - 1] = "SIGTERM"
      /\ CountOf(dlLog[p], "cancelled") = 1
      /\ CountOf(dlLog[p], "SIGTERM") = 1
      /\ dlProcess # p
      /\ \A j \in DOMAIN dlLog[p] : j > i => dlLog[p][j] \notin CallOutputs

\* C8: cancel() on an attached job sends SIGTERM, emits one 'cancelled' and
\* detaches before it returns; every pause(), resume() or cancel() made
\* while nothing is attached sends no signal and emits no event.
C8_CancelDetaches ==
  /\ []C8_CancelledOnce
  /\ [][(dlProcess = 0 /\ dlCalls' # dlCalls /\ dlSpawned' = dlSpawned)
          => dlLog' = dlLog]_vars

\* C8 witness: a job was cancelled and a later pause() found nothing to do.
C8_Witness ==
  /\ \E p \in Jobs : dlLog[p] # <<>> /\ dlLog[p][Len(dlLog[p])] = "cancelled"
  /\ dlProcess = 0
  /\ dlLastCall = [op |-> "pause", acted |-> FALSE]

\* C9, state part: at most one SIGKILL per child, only from the timer that
\* cancel() armed, never once that timer was cleared by the 'exit' event.
C9_KillOnce ==
  \A p \in Jobs :
    /\ CountOf(dlLog[p], "SIGKILL") <= 1
    /\ CountOf(dlLog[p], "SIGKILL") = 1
         => (dlTimer[p].st = "fired" /\ CountOf(dlLog[p], "cancelled") = 1)
    /\ dlTimer[p].st = "cleared" => CountOf(dlLog[p], "SIGKILL") = 0

IsPauseResume(e) == e \in {"paused", "resumed"}
PauseResumeOf(p) == SelectSeq(dlLog[p], IsPauseResume)
Alternates(s) ==
  \A i \in DOMAIN s : s[i] = IF i % 2 = 1 THEN "paused" ELSE "resumed"

\* C10 (as claimed): within a job started on a detached controller the
\* 'paused' and 'resumed' events alternate, starting with 'paused'.
C10_PausedResumedAlternate ==
  \A p \in Jobs : dlChild[p].fresh => Alternates(PauseResumeOf(p))
\* C11 (as claimed): for a job started on a detached controller, no
\* 'error' and no 'complete' event follows its 'cancelled' event, and
\* 'complete' and 'error' are not both emitted for it.
C11_OneTerminalEvent ==
  \A p \in Jobs :
    dlChild[p].fresh =>
      /\ \A i \in DOMAIN dlLog[p] : \A j \in DOMAIN dlLog[p] :
           (dlLog[p][i] = "cancelled" /\ j > i) => dlLog[p][j] \notin {"error", "complete"}
      /\ ~(CountOf(dlLog[p], "complete") > 0 /\ CountOf(dlLog[p], "error") > 0)

\* C12, settle-once part: a settled promise never changes.
C12_SettlesOnce ==
  [][\A p \in Jobs : dlPromise[p].st \in {"resolved", "rejected"}
       => dlPromise'[p] = dlPromise[p]]_vars

\* C12 (as claimed): the promise of a job settles once; after the 'close'
\* of a child that exited 0 with a recovered destination it is resolved
\* with that path; a rejection after a nonzero exit holds what the child
\* wrote to stderr; a failed spawn rejects with the spawn error.
C12_SettledByExit ==
  \A p \in Jobs :
    /\ (dlChild[p].closeSeen /\ dlChild[p].code = "zero" /\ dlChild[p].outputFile)
         => dlPromise[p] = [st |-> "resolved", value |-> "path", stderr |-> FALSE]
    /\ (dlPromise[p].st = "rejected" /\ dlChild[p].pid)
         => /\ dlPromise[p].value = "exit-code"
            /\ dlPromise[p].stderr = dlChild[p].stderr
    /\ (dlPromise[p].st = "rejected" /\ ~dlChild[p].pid)
         => dlPromise[p].value = "spawn-error"

\* C13 (as claimed), download part: download() resolves only with a
\* destination path recovered from the child's output.
C13_ResolvesWithArtifact ==
  \A p \in Jobs : dlPromise[p].st = "resolved" => dlPromise[p].value = "path"

\* C29: once a Downloader was cancelled and download() was called again, the
\* close or error event of the cancelled child leaves the new child attached:
\* as long as the newest child has neither closed, nor failed to spawn, nor
\* been cancelled itself, Downloader.process still refers to it.
Cancelled(p) == CountOf(dlLog[p], "cancelled") > 0
C29_LateCloseKeepsNewHandle ==
  \A p, q \in Jobs :
    ( /\ ~dlCrashed
      /\ p < q /\ q = dlSpawned
      /\ Cancelled(p) /\ ~Cancelled(q)
      /\ dlChild[q].pid /\ ~dlChild[q].closeSeen )
    => dlProcess = q

\* C35: in the events of a download job, no 'progress' follows 'cancelled'.
ProgressAfter(log, e) ==
  \E i, j \in DOMAIN log : i < j /\ log[i] = e /\ log[j] = "progress"
C35_NoProgressAfterCancelled ==
  \A p \in Jobs : ~ProgressAfter(dlLog[p], "cancelled")

\* C37: for a job cancelled while it was paused: no 'resumed' follows its
\* 'cancelled', and once the escalation timer has run or was cleared by the
\* child's exit, the child is dead; and every cancel() that acts leaves the
\* paused flag false.
LastBefore(log, i, es) ==
  LET before == {j \in 1..(i - 1) : log[j] \in es} IN
    IF before = {} THEN "none"
    ELSE log[CHOOSE j \in before : \A k \in before : k <= j]
CancelledAt(p) == {i \in DOMAIN dlLog[p] : dlLog[p][i] = "cancelled"}
CancelledPaused(p) ==
  \E i \in CancelledAt(p) : LastBefore(dlLog[p], i, {"paused", "resumed"}) = "paused"
C37_PausedCancelState ==
  \A p \in Jobs :
    CancelledPaused(p) =>
      /\ \A i \in CancelledAt(p) : \A j \in DOMAIN dlLog[p] :
           j > i => dlLog[p][j] # "resumed"
      /\ dlTimer[p].st \in {"fired", "cleared"} => dlChild[p].os = "dead"
C37_PausedCancelKills ==
  /\ []C37_PausedCancelState
  /\ [][(dlCalls' # dlCalls /\ dlLastCall' = [op |-> "cancel", acted |-> TRUE])
          => ~dlIsPaused']_vars

\* C37 witness: a child cancelled while suspended was killed by the
\* escalation.
C37_Witness ==
  \E p \in Jobs :
    /\ CancelledPaused(p)
    /\ dlTimer[p].st = "fired"
    /\ CountOf(dlLog[p], "SIGKILL") = 1
    /\ dlChild[p].os = "dead"

\* ================================================== claims on the Transcriber

\* C7 (as claimed): once the conversion of job t has produced the
\* intermediate WAV, that file is gone when transcribe() has settled.
C7_WavGoneWhenSettled ==
  \A t \in TrJobs :
    (trJob[t].needsWav /\ trJob[t].promise \in {"resolved", "rejected"}
       /\ trJob[t].err # "convert")
      => trWav[t] \in {"absent", "user"}

\* C24 (as claimed): a job during or after which cancel() was called has no
\* WAV file on disk once it has settled.
C24_CancelledLeavesNoWav ==
  \A t \in TrJobs :
    (t \in trCancelled /\ trJob[t].promise \in {"resolved", "rejected"})
      => trWav[t] \in {"absent", "user"}

\* C33: a file that lay at the intermediate WAV path before transcribe()
\* started is neither overwritten by the conversion nor removed by the
\* cleanup: no step changes it.
C33_ForeignWavUntouched ==
  [][\A t \in TrJobs : trWav[t] = "user" => trWav'[t] = "user"]_vars

\* C30: once cancel() was called during a job, no step spawns the engine for
\* that job: a job cancel() has reached never enters the engine phase
\* afterwards.
EngineStarts(t) == trJob[t].pc # "engine" /\ trJob'[t].pc = "engine"
C30_NoEngineAfterCancel ==
  [][\A t \in TrJobs : t \in trCancelled => ~EngineStarts(t)]_vars

\* =============================================== claims on the BinaryManager

\* C2 (as claimed): while a request for the artifact is in flight, no
\* further network request for it is issued.
C2_NoSecondRequest ==
  [][(\E c \in Callers : InFlight(c)) => acRequests' = acRequests]_vars

\* C4 (as claimed): with a single acquisition and a declared size, the
\* file at the final target path is never partially written.
C4_FinalNeverPartial ==
  (acStarted <= 1 /\ acDeclared > 0) => fsFinal # "partial"

\* C5 (as claimed): when a single acquisition fails because fewer bytes
\* than declared arrived, the caller receives the download-incomplete
\* error, the temporary file is gone and no final file was written.
C5_IncompleteLeavesNothing ==
  \A c \in Callers :
    (acStarted = 1 /\ acCall[c].pc = "done" /\ acCall[c].cause = "incomplete")
      => /\ acCall[c].err = "incomplete"
         /\ fsDest = "absent"
         /\ fsFinal \in {"absent", "old"}

\* C14 (as claimed): downloadBinary for a tool whose catalog entry is the
\* empty string fails without a network request, with the error that
\* carries the install instructions.
C14_EmptyUrlGivesInstructions ==
  \A c \in Callers :
    (acKind # "model" /\ acUrl = "empty" /\ acCall[c].pc = "done")
      => /\ acRequests = 0
         /\ acCall[c].out = "failed"
         /\ acCall[c].err = "install-instructions"

\* C31: when the download of an acquisition failed (HTTP error, network or
\* stream error, fewer bytes than declared), the error its caller receives
\* is that failure, however the queued fs.unlink and the catch block's
\* existsSync / unlinkSync interleave.
DownloadFailures == {"http", "network", "stream", "incomplete"}
C31_OriginalErrorDelivered ==
  \A c \in Callers :
    (acCall[c].pc = "done" /\ acCall[c].cause \in DownloadFailures)
      => acCall[c].err = acCall[c].cause

\* C32: when updateYtDlp found an installed binary and its re-download
\* failed, a binary is still installed at the target path.  Only runs with
\* this one call are looked at.
C32_FailedUpdateKeepsBinary ==
  \A c \in Callers :
    (acStarted = 1 /\ acCall[c].update /\ acCall[c].had
       /\ acCall[c].pc = "done" /\ acCall[c].cause \in DownloadFailures)
      => fsFinal \in {"old", "complete"}

\* C34: in the step in which a downloadBinary / downloadWhisperModel call
\* ends with an error, no file lies at the path downloadFile wrote to
\* ('<target>.tmp', for a zip '<target>.tmp.zip').
FailsNow(c) ==
  acCall[c].pc # "done" /\ acCall'[c].pc = "done" /\ acCall'[c].out = "failed"
RunInFlight == \E r \in AllCalls : daRun[r].pc \notin {"none", "done"}
C3_SettledAsRun ==
  \A k \in AllCalls :
    daCall[k].outcome # "none" => daCall[k].outcome = daRun[daCall[k].awaits].outcome
C3_SecondCallJoins ==
  /\ []C3_SettledAsRun
  /\ [][(RunInFlight /\ daCalls' = daCalls + 1)
          => /\ daStatusChecks' = daStatusChecks
             /\ daDownloads' = daDownloads
             /\ daRun' = daRun
             /\ daRun[daCall'[daCalls'].awaits].pc \notin {"none", "done"}]_vars

\* A call made during run 1 has settled with the failure of run 1.
C3_Witness ==
  /\ daCall[2].awaits = 1
  /\ daCall[2].outcome = "ytdlp-failed"
  /\ daCall[1].outcome = "ytdlp-failed"
  /\ daStatusChecks = 1

\* C17: a downloadAllBinaries() call made when neither yt-dlp nor deno is
\* installed, whose two downloads both succeed, has made exactly two
\* downloads when it resolves, and checkBinaryStatus().ready (yt-dlp and deno
\* exist and are executable) is true afterwards.
C17_TwoDownloadsThenReady ==
  (/\ daCalls = 1
   /\ daCall[1].outcome = "ok"
   /\ daRun[1].needYt /\ daRun[1].needDeno)
  => (daDownloads = 2 /\ ytReady /\ denoReady)

\* C36: downloadInProgress never holds a run that has ended, whether it ended
\* by success or by a failed download; and a call made while no run is in
\* flight starts a run of its own, with a status check of its own.
NoRunInFlight == \A r \in AllCalls : daRun[r].pc \in {"none", "done"}
CallMade == daCalls' = daCalls + 1
C36_GuardReleased ==
  /\ [](\A r \in AllCalls : daRun[r].pc = "done" => downloadInProgress # r)
  /\ [][(CallMade /\ NoRunInFlight) =>
          /\ daStatusChecks' = daStatusChecks + 1
          /\ daCall'[daCalls'].awaits = daCalls']_vars

\* A run ended with a failed download, and a later call started a new run.
C36_Witness ==
  \E r, q \in AllCalls :
    /\ r < q
    /\ daRun[r].outcome \in {"ytdlp-failed", "deno-failed"}
    /\ daRun[q].pc # "none"

\* C15 (as claimed): for a model name outside the enumeration no network
\* request is ever issued.
C15_UnknownModelNoRequest == ewModelUrl = "undefined" => ewRequests = 0

\* C16: the returned `ready` is true exactly when yt-dlp and deno both
\* exist with an execute bit, whatever holds for whisper and ffmpeg and
\* however the version probes ended.
C16_ReadyIffRequiredExecutable ==
  csPc = Len(Binaries) + 1
    => (csReady <=> (csFiles["yt-dlp"] = "exec" /\ csFiles["deno"] = "exec"))

\* ready although whisper and ffmpeg are missing and no probe gave a version
C16_Witness ==
  /\ csPc = Len(Binaries) + 1
  /\ csReady
  /\ csFiles["whisper"] = "missing"
  /\ csFiles["ffmpeg"] = "missing"
  /\ csInfo["yt-dlp"].version = "undefined"
  /\ csInfo["deno"].version = "undefined"

\* ============================================= claims on transcribeCommand

\* C6 (as claimed): once the temp directory was created and the command
\* is over, the directory is gone.
C6_TempDirGone ==
  (cliEnd # "running" /\ tempDir # "none") => tempDir = "removed"

\* C18: when checkBinaryStatus() reported yt-dlp or deno missing or not
\* executable, transcribeCommand has thrown a CliError with BinaryNotFound
\* (exit code 5) whose message names 'yt-transcribe --setup', and it has
\* started no ensureWhisperReady (model download), no preview request, no
\* temp directory and no subprocess of the downloader or transcriber.
C18_MissingBinaryFailsFast ==
  (cliStatus.checked /\ ~(cliStatus.ytdlp /\ cliStatus.deno)) =>
    /\ cliEnd = "thrown"
    /\ ErrorOf(cliErr).cli
    /\ ErrorOf(cliErr).exitCode = ExitCode.BinaryNotFound
    /\ "yt-transcribe --setup" \in ErrorOf(cliErr).words
    /\ cliIo \cap {"ensure", "preview", "tempdir", "spawn"} = {}
    /\ tempDir = "none"
    /\ cliEntry = "main" => cliExit = ExitCode.BinaryNotFound

C18_Witness ==
  /\ cliStatus.checked /\ cliStatus.ytdlp /\ ~cliStatus.deno
  /\ cliErr = "deno-not-found"
  /\ cliEntry = "main"
  /\ cliExit = ExitCode.BinaryNotFound

\* C19 (as claimed): a rejection with InvalidArguments comes before any I/O,
\* and a run with an invalid format, audio format, model name or URL does no
\* I/O and ends rejected with InvalidArguments, through main and through a
\* direct call of transcribeCommand alike.
C19_InvalidRejectedBeforeIo ==
  /\ (ErrorOf(cliErr).cli /\ ErrorOf(cliErr).exitCode = ExitCode.InvalidArguments)
       => cliIo = {}
  /\ (/\ ~(cliArgs.format /\ cliArgs.audioFormat /\ cliArgs.model /\ cliArgs.url)
      /\ cliErr # "unknown-option")
       => /\ cliIo = {}
          /\ cliPc = "over" =>
                (ErrorOf(cliErr).cli /\ ErrorOf(cliErr).exitCode = ExitCode.InvalidArguments)

\* The exit codes the failure categories call for.  A failed download may
\* or may not be a network failure, a failed spawn may or may not be a
\* missing binary.
ExpectedExit(how, err) ==
  IF how = "returned" THEN {ExitCode.Success}
  ELSE CASE err \in {"unknown-option", "invalid-format", "invalid-audio-format",
                     "invalid-model", "invalid-url", "invalid-path"}
              -> {ExitCode.InvalidArguments}
         [] err \in {"ytdlp-not-found", "deno-not-found", "whisper-not-found", "no-binary"}
              -> {ExitCode.BinaryNotFound}
         [] err = "model-network" -> {ExitCode.NetworkError}
         [] err \in {"exit", "no-output", "convert", "no-audio"}
              -> {ExitCode.TranscriptionError}
         [] err \in {"dl-stderr", "dl-exit"} -> {ExitCode.GeneralError, ExitCode.NetworkError}
         [] err \in {"dl-spawn", "spawn"} -> {ExitCode.GeneralError, ExitCode.BinaryNotFound}
         [] err = "no-model"
              -> {ExitCode.GeneralError, ExitCode.TranscriptionError, ExitCode.BinaryNotFound}
         [] OTHER -> {ExitCode.GeneralError}

\* C20 (as claimed): a run through main has no exit code until it is over,
\* and then exactly the one of 0..5 that its outcome calls for: 0 after
\* success, 2 invalid arguments, 3 network failure (ensureWhisperReady
\* included), 4 transcription failure, 5 missing binary, 1 otherwise.
C20_ExitByCategory ==
  cliEntry = "main" =>
    IF cliPc = "over" THEN cliExit \in ExpectedExit(cliEnd, cliErr)
    ELSE cliExit = NoExit

\* ================================================= claims on the CLI output
\* C21: nothing is written to standard output before the output step; after
\* it standard output holds the transcript alone, followed by one newline
\* when the transcript lacks one, and nothing at all when an output file was
\* given without --stdout.  No reporter call writes to standard output.
C21_StdoutIsTranscript ==
  rp.out = IF rpDone /\ (~rpOpts.output \/ rpOpts.stdout)
           THEN IF rpTranscript = "newline" THEN <<"transcript">>
                ELSE <<"transcript", "\n">>
           ELSE <<>>

C21_Witness ==
  /\ rpDone /\ rpOpts.output /\ ~rpOpts.stdout
  /\ rpCalls = MaxReports
  /\ Len(rp.err) >= MaxReports
  /\ rp.out = <<>>

\* C22 (as claimed): with quiet mode enabled nothing is written to standard
\* error.
C22_QuietWritesNothing ==
  rpOpts.quiet => rp.err = <<>>

\* ========================================= claims on the progress events
\* The events the progress lines of a stream call for, in order.
RECURSIVE ExpectedEvents(_)
ExpectedEvents(lines) ==
  IF lines = <<>> THEN <<>>
  ELSE (IF Len(Head(lines)) > 1 THEN <<SplitOn(Head(lines), "|")>> ELSE <<>>)
       \o ExpectedEvents(Tail(lines))

\* C23 (as claimed): the 'progress' events are those of the progress lines
\* delivered so far, one for each, in the order written, however the stream
\* was cut into chunks.
C23_EventPerLine ==
  LET want == ExpectedEvents(SplitOn(pgStream, "\n"))
  IN /\ Len(pgEvents) <= Len(want)
     /\ \A k \in 1..Len(pgEvents) : pgEvents[k] = want[k]
     /\ pgSent = Len(pgStream) => pgEvents = want

\* ================================================== claims on parseSpeed
\* The strings of the form <number><optional space><unit>/s, in any case
\* (white space around the whole string is not held against it).
SpeedForm(in) ==
  /\ in.num \in {<<"1">>, <<"1", "5">>, <<"1", ".", "5">>}
  /\ in.prefix # <<"X">>
  /\ in.binary # <<>> => in.prefix # <<>>
  /\ in.byte # <<>>
  /\ in.suffix \in {<<"/", "s">>, <<"/", "S">>}

\* number * 1000^k or 1024^k
SpeedValue(in) ==
  LET tenths == CASE in.num = <<"1">> -> 10 [] in.num = <<"1", "5">> -> 150 [] OTHER -> 15
      base == IF in.binary # <<>> THEN 1024 ELSE 1000
      factor == CASE in.prefix \in {<<"K">>, <<"k">>} -> base
                  [] in.prefix \in {<<"M">>, <<"m">>} -> base * base
                  [] in.prefix \in {<<"G">>, <<"g">>} -> base * base * base
                  [] OTHER -> 1
  IN [nan |-> FALSE, tenths |-> tenths, times |-> factor]

\* C25 (as claimed): for a string of the form <number><optional space>
\* <unit>/s parseSpeed returns the number times 1000^k or 1024^k, and for
\* every other string it returns 0.
C25_ParseSpeed ==
  spOut # NotCalled =>
    spOut = IF SpeedForm(spIn) THEN SpeedValue(spIn) ELSE Zero

\* ============================================== claims on extractVideoId
\* The parameters of the query that are v=<video id>.
IdParams(in) == { k \in 1..Len(in.query) :
                    in.query[k].name = "v=" /\ in.query[k].value \in VideoIds }

\* C26 (as claimed): for a youtube.com/watch URL whose query holds
\* v=<video id>, first or after other parameters, extractVideoId returns that
\* id; for a URL that holds no video id it returns null.
C26_IdWhereverVStands ==
  evOut # "not-called" =>
    /\ (evIn.host = "youtube.com/" /\ evIn.path = "watch?" /\ IdParams(evIn) # {})
         => evOut \in { evIn.query[k].value : k \in IdParams(evIn) }
    /\ (evIn.segment \notin VideoIds /\ \A k \in 1..Len(evIn.query) :
                                           evIn.query[k].value \notin VideoIds)
         => evOut = "null"

\* ========================================= claims on isPathWithinAllowed
\* The location a path names is a base or lies below it, segment by segment.
Below(segs, base) == Len(base) <= Len(segs) /\ SubSeq(segs, 1, Len(base)) = base

\* C27 (as claimed): the request is answered by opening the path exactly
\* when the location it names is an allowed base or lies below one on a
\* segment boundary.
C27_WithinExactly ==
  ipAnswer # "none" =>
    (ipAnswer = "opened" <=> \E base \in ipBases : Below(Resolve(ipPath), base))

\* ===================================== claims on the download IPC registry
\* C28: while the child of a download runs (suspended or not) and the
\* download was not cancelled, its id is registered with its Downloader; and
\* a pause, resume or cancel request for such a download answers success.
\* Only downloads whose id no other download of the run used are looked at.
Uncancelled(n) == adDl[n].os \in {"running", "stopped"} /\ ~adDl[n].term
SoleUser(n) == \A m \in Starts \ {n} : adDl[m].id # adDl[n].id
Registered(n) == activeDownloads[adDl[n].id] = n
Requested == adRequests' # adRequests
C28_RunningStaysReachable ==
  /\ [](\A n \in Starts : (Uncancelled(n) /\ SoleUser(n)) => Registered(n))
  /\ [][\A n \in Starts :
          (Requested /\ Uncancelled(n) /\ SoleUser(n) /\ adAnswer'.id = adDl[n].id)
          => adAnswer'.success]_vars

\* ============================================ claims on the playlist queue
\* C38: when every started download terminates, every item of the playlist
\* that is 'pending' eventually leaves that status, which it can only do by
\* being started.
C38_PendingStarts ==
  \A i \in Items :
    (downloads[i].status = "pending") ~> (downloads[i].status = "downloading")

\* ======================================== claims on the Transcriber's progress
\* The latest event was computed from a caption timestamp.
FromTimestamp == tpProgress.currentTime # <<>>

\* C39: a progress event derived from caption timestamps has percent <= 99,
\* and percent 100 comes only from a 'progress = 100%' token of the engine
\* or from the 'close' handler after exit code 0 with the output file found.
C39_TimestampBelow100 ==
  /\ FromTimestamp => tpProgress.percent <= 99
  /\ tpProgress.percent = 100 =>
       \/ tpCause.kind = "data" /\ tpCause.output.token = <<100>>
       \/ tpCause.kind = "close" /\ tpCause.code = 0 /\ tpCause.found

\* A caption timestamp past the probed duration was reported as 99.
C39_Witness ==
  /\ FromTimestamp
  /\ tpProgress.percent = 99
  /\ CurrentSeconds(tpProgress.currentTime) > totalDuration


\* ================================================== claims on followRedirect
\* C40: downloadFile follows at most 5 redirects.  A chain of at most 5
\* redirects that ends in status 200 is downloaded; the 6th redirect fails
\* the call with 'Too many redirects', and no request follows it.
C40_FiveHops ==
  /\ rdError = "too-many" <=> rdHops > 5
  /\ rdHops > 5 => rdPc = "failed" /\ rdRequests = rdHops
  /\ rdHops <= 5 /\ rdStatus = 200 => rdPc \in {"body", "done"} \/ rdError = "stream"

\* Five redirects, then status 200, and the file was downloaded.
C40_Witness == rdHops = 5 /\ rdStatus = 200 /\ rdPc = "done"

====
